---- MODULE Spec2Model ----
(***************************************************************************)
(* Job lifecycle of the document scanning backend: the JobManager registry *)
(* (app/services/job_manager.py), the background worker process_job        *)
(* (app/services/pipeline.py) and the create_job route (app/api/routes.py).*)
(* Every job runs on its own worker thread; the registry lock is the only  *)
(* synchronisation.  A step of the model is one access to the shared job   *)
(* record, or one call of an external collaborator.  The ordering of the   *)
(* pages of an upload (prepare_pages, _sort_paths, iter_supported_files)   *)
(* is a specification of its own, OrderingSpec.                            *)
(***************************************************************************)
EXTENDS Integers, Sequences, FiniteSets, TLC

\* Number of jobs submitted (each has its own worker thread).
MaxJobs == 2
\* Largest number of page images one upload fans out to.
MaxPages == 2

JobIds == 1..MaxJobs

\* Lock holder value of a free lock.
Free == 0

\* Optional[...] = None
Null == "null"

\* JobStatus (models/job.py)
JobStatus == {"pending", "running", "completed", "failed"}
Terminal == {"completed", "failed"}

\* Classes of uploaded file, by suffix (archive_utils.is_pdf / is_image,
\* the ".zip" test of prepare_pages, anything else).
Kinds == {"pdf", "zip", "image", "other"}

\* str(exc) of the errors the pipeline can raise.
MsgUnsupported == "Unsupported file type"
MsgPrepare == "prepare error"
MsgWeights == "Weights file not found"
MsgPage == "page error"

\* summary_counts of a JobResult at construction (default_factory).
ZeroSummary == [signature |-> 0, stamp |-> 0, qr |-> 0]

\* What the detector, the overlap filter and the QR reader leave on a page:
\* the numbers of surviving detections per label and of accepted QR hits.
\* A processed page carries one signature and one QR code here.
PageYields ==
  { [signature |-> 1, stamp |-> 0, qr |-> 1] }

----
\* Paths and their natural order (pipeline.py:128-175, archive_utils.py).
\* A string is a sequence of characters; a path is its posix string relative
\* to the directory it lives in.

\* The characters of the paths below, in code point order.
CharTable ==
  << ".", "/", "0", "1", "2", "3", "4", "5", "6", "7", "8", "9", "P", "_",
     "a", "d", "e", "f", "g", "i", "j", "n", "p", "t", "x", "z" >>

Digits == << "0", "1", "2", "3", "4", "5", "6", "7", "8", "9" >>

IsDigit(c) == \E i \in 1..Len(Digits) : Digits[i] = c

DigitValue(c) == (CHOOSE i \in 1..Len(Digits) : Digits[i] = c) - 1

\* ord(c)
Ord(c) == CHOOSE i \in 1..Len(CharTable) : CharTable[i] = c

\* str.lower(); P is the one upper-case letter of CharTable.
Lower(text) == [i \in 1..Len(text) |-> IF text[i] = "P" THEN "p" ELSE text[i]]

\* int(part) of a run of digits
RECURSIVE ToInt(_)
ToInt(ds) ==
  IF ds = << >> THEN 0
  ELSE 10 * ToInt(SubSeq(ds, 1, Len(ds) - 1)) + DigitValue(ds[Len(ds)])

\* Length of the longest run of digits (d = TRUE) or of non-digits that starts
\* at position i of text.
RECURSIVE RunLen(_, _, _)
RunLen(text, i, d) ==
  IF i > Len(text) \/ IsDigit(text[i]) # d THEN 0
  ELSE 1 + RunLen(text, i + 1, d)

StrPart(t) == [digit |-> FALSE, int |-> 0, str |-> t]
IntPart(n) == [digit |-> TRUE, int |-> n, str |-> << >>]

\* re.compile(r"(\d+)").split(text) from position i on, each run of digits
\* converted by int: text parts and numbers alternate, a text part first and
\* last (empty when the string starts or ends with a digit).
RECURSIVE SplitFrom(_, _)
SplitFrom(text, i) ==
  LET n == RunLen(text, i, FALSE)
      j == i + n
      m == RunLen(text, j, TRUE)
  IN  IF j > Len(text)
        THEN << StrPart(SubSeq(text, i, j - 1)) >>
        ELSE << StrPart(SubSeq(text, i, j - 1)),
                IntPart(ToInt(SubSeq(text, j, j + m - 1))) >>
             \o SplitFrom(text, j + m)

\* _natural_key (pipeline.py:157-159, archive_utils.py:45-53)
natural_key(text) == SplitFrom(Lower(text), 1)

\* str < str: by code points, a proper prefix first.
RECURSIVE StrLess(_, _)
StrLess(a, b) ==
  IF b = << >> THEN FALSE
  ELSE IF a = << >> THEN TRUE
  ELSE IF a[1] # b[1] THEN Ord(a[1]) < Ord(b[1])
  ELSE StrLess(Tail(a), Tail(b))

\* Comparison of two elements at the same position of two keys.
PartLess(x, y) ==
  IF x.digit /\ y.digit THEN x.int < y.int ELSE StrLess(x.str, y.str)

\* list < list of Python: the first differing element decides, else a proper
\* prefix is smaller.
RECURSIVE KeyLess(_, _)
KeyLess(a, b) ==
  IF b = << >> THEN FALSE
  ELSE IF a = << >> THEN TRUE
  ELSE IF a[1] # b[1] THEN PartLess(a[1], b[1])
  ELSE KeyLess(Tail(a), Tail(b))

\* sorted(paths, key=natural key): stable, an element goes behind every
\* element whose key is not greater.
RECURSIVE InsertByKey(_, _)
InsertByKey(sorted, x) ==
  IF sorted = << >> THEN << x >>
  ELSE LET last == sorted[Len(sorted)]
       IN  IF KeyLess(natural_key(x), natural_key(last))
             THEN Append(InsertByKey(SubSeq(sorted, 1, Len(sorted) - 1), x), last)
             ELSE Append(sorted, x)

\* _sort_paths (pipeline.py:162-175); the paths are relative to base already.
RECURSIVE sort_paths(_)
sort_paths(paths) ==
  IF paths = << >> THEN << >>
  ELSE InsertByKey(sort_paths(SubSeq(paths, 1, Len(paths) - 1)), paths[Len(paths)])

\* Position of the last occurrence of character c in text, 0 if none.
RECURSIVE LastIndex(_, _)
LastIndex(text, c) ==
  IF text = << >> THEN 0
  ELSE IF text[Len(text)] = c THEN Len(text)
  ELSE LastIndex(SubSeq(text, 1, Len(text) - 1), c)

\* Path.name: the last component.
Name(path) == SubSeq(path, LastIndex(path, "/") + 1, Len(path))

\* Path.suffix: the last dot of the name (not a leading one) and what follows.
Suffix(path) ==
  LET nm == Name(path)
      d == LastIndex(nm, ".")
  IN  IF d <= 1 THEN << >> ELSE SubSeq(nm, d, Len(nm))

\* Path.stem: the name without its suffix.
Stem(path) ==
  LET nm == Name(path) IN SubSeq(nm, 1, Len(nm) - Len(Suffix(path)))

\* archive_utils.py:9-10
SUPPORTED_IMAGE_EXTS ==
  { << ".", "j", "p", "g" >>, << ".", "j", "p", "e", "g" >>,
    << ".", "p", "n", "g" >>, << ".", "b", "m", "p" >>,
    << ".", "t", "i", "f" >>, << ".", "t", "i", "f", "f" >> }

SUPPORTED_PDF_EXT == << ".", "p", "d", "f" >>

\* archive_utils.py:34-39
is_pdf(path) == Lower(Suffix(path)) = SUPPORTED_PDF_EXT

is_image(path) == Lower(Suffix(path)) \in SUPPORTED_IMAGE_EXTS

\* The files of seq with a supported suffix (archive_utils.py:23), in order.
RECURSIVE SelectSupported(_)
SelectSupported(seq) ==
  IF seq = << >> THEN << >>
  ELSE LET rest == SelectSupported(Tail(seq))
       IN  IF is_image(seq[1]) \/ is_pdf(seq[1]) THEN << seq[1] >> \o rest ELSE rest

\* iter_supported_files (archive_utils.py:20-26): the supported files of the
\* listing root.rglob("*") produced, sorted by the natural key of their path
\* relative to root.
iter_supported_files(listing) == sort_paths(SelectSupported(listing))

\* f"page_{index:03d}.jpg" for index < 1000
PageFile(index) ==
  << "p", "a", "g", "e", "_",
     Digits[(index \div 100) + 1], Digits[((index \div 10) % 10) + 1],
     Digits[(index % 10) + 1], ".", "j", "p", "g" >>

\* pdf_to_images (pdf_utils.py:11-23) for a document of n pages: the paths
\* output_dir/page_001.jpg ... in page order, relative to pages_dir.
pdf_to_images(pdf_folder, n) ==
  [index \in 1..n |-> pdf_folder \o << "/" >> \o PageFile(index)]

\* pipeline.py:135-143: the page paths of the files of an archive, relative to
\* pages_dir, in the order of files; every PDF has n pages.
RECURSIVE ArchivePages(_, _)
ArchivePages(files, n) ==
  IF files = << >> THEN << >>
  ELSE (IF is_pdf(files[1]) THEN pdf_to_images(Stem(files[1]), n)
        ELSE << Name(files[1]) >>)
       \o ArchivePages(Tail(files), n)

\* prepare_pages (pipeline.py:128-151) for the upload upload_target, whose
\* extracted archive lists as listing and whose PDFs have n pages: the page
\* paths relative to pages_dir, or the ValueError.
prepare_pages(upload_target, listing, n) ==
  IF is_pdf(upload_target)
    THEN [raised |-> FALSE, pages |-> pdf_to_images(Stem(upload_target), n)]
  ELSE IF Lower(Suffix(upload_target)) = << ".", "z", "i", "p" >>
    THEN [raised |-> FALSE,
          pages |-> sort_paths(ArchivePages(iter_supported_files(listing), n))]
  ELSE IF is_image(upload_target)
    THEN [raised |-> FALSE, pages |-> << Name(upload_target) >>]
  ELSE [raised |-> TRUE, pages |-> << >>]

VARIABLES
  registry,        \* JobManager._jobs: job id -> JobResult
  lock,            \* JobManager._lock: Free or the id of the job whose thread holds it
  pc,              \* position of the thread that serves job j
  suffix,          \* whether prepare_pages found job j's upload supported
  page_images,     \* process_job: number of page paths prepare_pages returned
  idx,             \* process_job: index of the next page of the for loop
  page_results,    \* process_job: local list page_results
  summary_counts,  \* process_job: local dict summary_counts
  exc,             \* the exception caught by process_job (its message), Null if none
  detectCalls,     \* number of detection_service.detect invocations for job j
  skipped,         \* pages of job j for which cv2.imread returned None
  statusLog,       \* every value assigned to job j's status, in order
  stampLog,        \* number of assignments to job j's completed_at
  upload,          \* page ordering: the uploaded file (name, archive members, PDF length)
  runs,            \* page ordering: two executions of process_job on that upload
  page,            \* page analysis: one job's page loop with the detector's labels
  qr,              \* QR detection: one call of QRDetector.detect
  overlap,         \* overlap suppression: one call of filter_signature_overlaps
  review,          \* review flag: one call of analyze_review_need
  heat,            \* heat map: one call of generate_heatmap
  evaluation,      \* evaluation: one call of match_predictions, or of compute_iou
  reader           \* a request handler that reads one job record (routes.py get_job, list_jobs)

\* The variables of the page ordering executions.
ordering == << upload, runs >>

\* The variables of the calls of the page analysis functions.
functions == << page, qr, overlap, review, heat, evaluation >>

vars == << registry, lock, pc, suffix, page_images, idx, page_results,
           summary_counts, exc, detectCalls, skipped, statusLog, stampLog,
           ordering, reader, functions >>

locals == << suffix, page_images, idx, page_results, summary_counts, exc,
             detectCalls, skipped, ordering, reader, functions >>

\* JobResult(job_id, status=pending, source_files=[]) (routes.py:22)
JobResult ==
  [status |-> "pending", pages |-> << >>, summary |-> ZeroSummary,
   completed_at |-> Null, error |-> Null]

\* The executions of the page ordering, before an upload is chosen.
Runs == {1, 2}

NoRun ==
  [listing |-> << >>, prepared |-> FALSE, raised |-> FALSE,
   page_images |-> << >>, page_results |-> << >>]

NoUpload == [name |-> << >>, files |-> {}, pdf_pages |-> 0]

\* No request that reads a job record is being served.
NoRequest ==
  [pc |-> "idle", todo |-> << >>, status |-> "unread",
   completed_at |-> "unread", error |-> "unread"]

JobInit ==
  /\ reader = NoRequest
  /\ registry = << >>
  /\ lock = Free
  /\ pc = [j \in JobIds |-> "none"]
  /\ suffix = [j \in JobIds |-> Null]
  /\ page_images = [j \in JobIds |-> 0]
  /\ idx = [j \in JobIds |-> 1]
  /\ page_results = [j \in JobIds |-> << >>]
  /\ summary_counts = [j \in JobIds |-> ZeroSummary]
  /\ exc = [j \in JobIds |-> Null]
  /\ detectCalls = [j \in JobIds |-> 0]
  /\ skipped = [j \in JobIds |-> {}]
  /\ statusLog = [j \in JobIds |-> << >>]
  /\ stampLog = [j \in JobIds |-> 0]

\* No call of a page analysis function is in progress.
NoCall == [pc |-> "idle"]

\* The page analysis functions, before any of them is called.
FunctionsIdle ==
  /\ page = NoCall
  /\ qr = NoCall
  /\ overlap = NoCall
  /\ review = NoCall
  /\ heat = NoCall
  /\ evaluation = NoCall

\* The job store and the page ordering, before anything is uploaded.
JobsIdle ==
  /\ JobInit
  /\ upload = NoUpload
  /\ runs = [r \in Runs |-> NoRun]

Init ==
  /\ JobsIdle
  /\ FunctionsIdle

\* with self._lock: entered by the thread of job j, which then holds the lock.
Acquire(j) ==
  /\ lock = Free
  /\ lock' = j

\* with self._lock: left.
Release(j) ==
  /\ lock = j
  /\ lock' = Free

\* A field write that lands in every record of the registry.
SetField_every(j, f, v) ==
  registry' = [k \in DOMAIN registry |-> [registry[k] EXCEPT ![f] = v]]

\* A field write of job j's record.
SetField(j, f, v) == registry' = [registry EXCEPT ![j][f] = v]

SetStatus(j, s) ==
  /\ SetField(j, "status", s)
  /\ statusLog' = [statusLog EXCEPT ![j] = Append(@, s)]

----
\* create_job (routes.py:16-34): a new id and a pending JobResult, stored by
\* JobManager.save (job_manager.py:15-17) under the lock.  Ids are handed out
\* in order.
create_job(j) ==
  /\ pc[j] = "none"
  /\ j > 1 => pc[j - 1] # "none"
  /\ Acquire(j)
  /\ registry' = (j :> JobResult) @@ registry
  /\ statusLog' = [statusLog EXCEPT ![j] = << "pending" >>]
  /\ pc' = [pc EXCEPT ![j] = "save"]
  /\ UNCHANGED << locals, stampLog >>

\* save returns; routes.py:32 background_tasks.add_task(process_job, ...).
add_task(j) ==
  /\ pc[j] = "save"
  /\ Release(j)
  /\ pc' = [pc EXCEPT ![j] = "queued"]
  /\ UNCHANGED << registry, locals, statusLog, stampLog >>

----
\* process_job (pipeline.py:30-125), one thread per job.

\* pipeline.py:31  job_manager.get(job_id) (job_manager.py:19-21): the lookup.
get(j) ==
  /\ pc[j] = "queued"
  /\ Acquire(j)
  /\ pc' = [pc EXCEPT ![j] = "get"]
  /\ UNCHANGED << registry, locals, statusLog, stampLog >>

\* pipeline.py:32-33  get returns; an absent job raises RuntimeError.
check_registered(j) ==
  /\ pc[j] = "get"
  /\ Release(j)
  /\ pc' = [pc EXCEPT ![j] =
              IF j \notin DOMAIN registry THEN "not_registered" ELSE "call_mark_running"]
  /\ UNCHANGED << registry, locals, statusLog, stampLog >>

\* JobManager.mark_running (job_manager.py:27-30)
mark_running(j) ==
  /\ pc[j] = "call_mark_running"
  /\ Acquire(j)
  /\ SetStatus(j, "running")
  /\ pc' = [pc EXCEPT ![j] = "mark_running"]
  /\ UNCHANGED << locals, stampLog >>

\* mark_running that returns without releasing the lock.
enter_try_locked(j) ==
  /\ pc[j] = "mark_running"
  /\ lock = j
  /\ pc' = [pc EXCEPT ![j] = "prepare"]
  /\ UNCHANGED << registry, lock, locals, statusLog, stampLog >>

\* mark_running returns; the try block of process_job is entered.
enter_try(j) ==
  /\ pc[j] = "mark_running"
  /\ Release(j)
  /\ pc' = [pc EXCEPT ![j] = "prepare"]
  /\ UNCHANGED << registry, locals, statusLog, stampLog >>

\* prepare_pages without its final raise: an unknown suffix is treated as an
\* archive.
PageCounts_fallthrough(k) ==
  CASE k = "pdf" -> 1..MaxPages
    [] k = "image" -> {1}
    [] OTHER -> 0..MaxPages

\* The number of pages prepare_pages (pipeline.py:128-151) can return for an
\* upload of kind k; an unsupported suffix returns nothing, it raises.
PageCounts(k) ==
  CASE k = "pdf" -> 1..MaxPages
    [] k = "zip" -> 0..MaxPages
    [] k = "image" -> {1}
    [] OTHER -> {}

\* The errors lines 38-50 can raise for an upload of kind k: the ValueError of
\* prepare_pages:151, or an I/O, rasterizer or archive error.
PrepareErrors(k) ==
  IF k \in {"pdf", "zip", "image"} THEN {MsgPrepare} ELSE {MsgUnsupported}

\* Whether prepare_pages has a branch for an upload of kind k.
Supported(k) == IF k = "other" THEN "unsupported" ELSE "supported"

\* pipeline.py:38-51  directories, move of the upload, prepare_pages.
prepare(j) ==
  /\ pc[j] = "prepare"
  /\ \E k \in Kinds :
       /\ suffix' = [suffix EXCEPT ![j] = Supported(k)]
       /\ \/ \E n \in PageCounts(k) :
               /\ page_images' = [page_images EXCEPT ![j] = n]
               /\ pc' = [pc EXCEPT ![j] = "service"]
               /\ UNCHANGED exc
          \/ \E m \in PrepareErrors(k) :
               /\ exc' = [exc EXCEPT ![j] = m]
               /\ pc' = [pc EXCEPT ![j] = "except"]
               /\ UNCHANGED page_images
  /\ UNCHANGED << registry, lock, idx, page_results, summary_counts,
                  detectCalls, skipped, statusLog, stampLog,
                  ordering, reader, functions >>

\* Where the for loop of line 58 goes when its next index is i.
LoopPc(j, n, i) == IF i <= n THEN "loop" ELSE "l119"

\* pipeline.py:53  get_detection_service(): the service, or FileNotFoundError.
get_detection_service(j) ==
  /\ pc[j] = "service"
  /\ \/ /\ pc' = [pc EXCEPT ![j] = LoopPc(j, page_images[j], idx[j])]
        /\ UNCHANGED exc
     \/ /\ exc' = [exc EXCEPT ![j] = MsgWeights]
        /\ pc' = [pc EXCEPT ![j] = "except"]
  /\ UNCHANGED << registry, lock, suffix, page_images, idx, page_results,
                  summary_counts, detectCalls, skipped, statusLog, stampLog,
                  ordering, reader, functions >>

\* summary_counts after a page that yields y (pipeline.py:100-103).
AddCounts(s, y) ==
  [signature |-> s.signature + y.signature,
   stamp |-> s.stamp + y.stamp,
   qr |-> s.qr + y.qr]

\* pipeline.py:64-66  cv2.imread returned None: continue.
page_unreadable(j) ==
  /\ pc[j] = "loop"
  /\ skipped' = [skipped EXCEPT ![j] = @ \cup {idx[j]}]
  /\ idx' = [idx EXCEPT ![j] = @ + 1]
  /\ pc' = [pc EXCEPT ![j] = LoopPc(j, page_images[j], idx[j] + 1)]
  /\ UNCHANGED << registry, lock, suffix, page_images, page_results,
                  summary_counts, exc, detectCalls, statusLog, stampLog,
                  ordering, reader, functions >>

\* pipeline.py:68-117  one page through detector, overlap filter, QR reader,
\* annotation, heatmap; its PageResult is appended to the local list.
page_done(j) ==
  /\ pc[j] = "loop"
  /\ \E y \in PageYields :
       /\ page_results' = [page_results EXCEPT ![j] =
                             Append(@, [page_name |-> idx[j], counts |-> y])]
       /\ summary_counts' = [summary_counts EXCEPT ![j] = AddCounts(@, y)]
  /\ detectCalls' = [detectCalls EXCEPT ![j] = @ + 1]
  /\ idx' = [idx EXCEPT ![j] = @ + 1]
  /\ pc' = [pc EXCEPT ![j] = LoopPc(j, page_images[j], idx[j] + 1)]
  /\ UNCHANGED << registry, lock, suffix, page_images, exc, skipped,
                  statusLog, stampLog,
                  ordering, reader, functions >>

\* pipeline.py:68-92  the detector, the QR reader or a renderer raises.
page_raises(j) ==
  /\ pc[j] = "loop"
  /\ detectCalls' = [detectCalls EXCEPT ![j] = @ + 1]
  /\ exc' = [exc EXCEPT ![j] = MsgPage]
  /\ pc' = [pc EXCEPT ![j] = "except"]
  /\ UNCHANGED << registry, lock, suffix, page_images, idx, page_results,
                  summary_counts, skipped, statusLog, stampLog,
                  ordering, reader, functions >>

\* pipeline.py:119  job.pages = page_results
store_pages(j) ==
  /\ pc[j] = "l119"
  /\ SetField(j, "pages", page_results[j])
  /\ pc' = [pc EXCEPT ![j] = "l120"]
  /\ UNCHANGED << lock, locals, statusLog, stampLog >>

\* pipeline.py:120  job.summary = summary_counts
store_summary(j) ==
  /\ pc[j] = "l120"
  /\ SetField(j, "summary", summary_counts[j])
  /\ pc' = [pc EXCEPT ![j] = "l121"]
  /\ UNCHANGED << lock, locals, statusLog, stampLog >>

\* pipeline.py:121  job.status = JobStatus.completed
store_status(j) ==
  /\ pc[j] = "l121"
  /\ SetStatus(j, "completed")
  /\ pc' = [pc EXCEPT ![j] = "call_mark_completed"]
  /\ UNCHANGED << lock, locals, stampLog >>

\* job.completed_at = datetime.utcnow(), the last statement of the with block.
Stamp(j) ==
  /\ SetField(j, "completed_at", "utcnow")
  /\ stampLog' = [stampLog EXCEPT ![j] = @ + 1]
  /\ Release(j)

\* pipeline.py:122  JobManager.mark_completed (job_manager.py:32-36),
\* job.status = JobStatus.completed
mark_completed(j) ==
  /\ pc[j] = "call_mark_completed"
  /\ Acquire(j)
  /\ SetStatus(j, "completed")
  /\ pc' = [pc EXCEPT ![j] = "mc_stamp"]
  /\ UNCHANGED << locals, stampLog >>

\* JobManager.mark_completed, job.completed_at; process_job returns.
mark_completed_stamp(j) ==
  /\ pc[j] = "mc_stamp"
  /\ Stamp(j)
  /\ pc' = [pc EXCEPT ![j] = "done"]
  /\ UNCHANGED << locals, statusLog >>

\* pipeline.py:123-124  except Exception: JobManager.mark_failed
\* (job_manager.py:38-43), job.status = JobStatus.failed
mark_failed(j) ==
  /\ pc[j] = "except"
  /\ Acquire(j)
  /\ SetStatus(j, "failed")
  /\ pc' = [pc EXCEPT ![j] = "mf_error"]
  /\ UNCHANGED << locals, stampLog >>

\* mark_failed without its assignment of job.error.
mark_failed_error_dropped(j) ==
  /\ pc[j] = "mf_error"
  /\ lock = j
  /\ pc' = [pc EXCEPT ![j] = "mf_stamp"]
  /\ UNCHANGED << registry, lock, locals, statusLog, stampLog >>

\* JobManager.mark_failed, job.error = error
mark_failed_error(j) ==
  /\ pc[j] = "mf_error"
  /\ lock = j
  /\ SetField(j, "error", exc[j])
  /\ pc' = [pc EXCEPT ![j] = "mf_stamp"]
  /\ UNCHANGED << lock, locals, statusLog, stampLog >>

\* JobManager.mark_failed, job.completed_at; then pipeline.py:125 raise: the
\* caller of process_job sees the exception.
mark_failed_stamp(j) ==
  /\ pc[j] = "mf_stamp"
  /\ Stamp(j)
  /\ pc' = [pc EXCEPT ![j] = "raised"]
  /\ UNCHANGED << locals, statusLog >>

process_job(j) ==
  \/ get(j) \/ check_registered(j)
  \/ mark_running(j) \/ enter_try(j)
  \/ prepare(j) \/ get_detection_service(j)
  \/ page_unreadable(j) \/ page_done(j) \/ page_raises(j)
  \/ store_pages(j) \/ store_summary(j) \/ store_status(j)
  \/ mark_completed(j) \/ mark_completed_stamp(j)
  \/ mark_failed(j) \/ mark_failed_error(j) \/ mark_failed_stamp(j)

Next == \E j \in JobIds : create_job(j) \/ add_task(j) \/ process_job(j)

Spec == Init /\ [][Next]_vars

----
\* Page ordering: process_job run twice on one upload, the two executions
\* differing only in the order in which root.rglob("*") lists the files of the
\* extracted archive.

\* Largest number of files in an uploaded archive.
MaxMembers == 3
\* Largest number of pages of a PDF.
MaxPdfPages == 2

\* Paths of the files an archive can hold.
Members ==
  { << "p", "2", ".", "p", "n", "g" >>,
    << "p", "1", "0", ".", "p", "n", "g" >>,
    << "p", "0", "2", ".", "p", "n", "g" >>,
    << "P", "2", ".", "p", "n", "g" >>,
    << "d", "/", "p", "2", ".", "p", "n", "g" >>,
    << "n", ".", "t", "x", "t" >>,
    << "a", ".", "p", "d", "f" >> }

\* Names of the uploads that are no archive.
PlainUploads ==
  { << "a", ".", "p", "d", "f" >>, << "p", "2", ".", "p", "n", "g" >>,
    << "n", ".", "t", "x", "t" >> }

ZipUpload == << "x", ".", "z", "i", "p" >>

\* The orders in which the files of set S can be listed.
Listings(S) ==
  { f \in [1..Cardinality(S) -> S] : \A a, b \in 1..Cardinality(S) : a # b => f[a] # f[b] }

OrderingInit ==
  /\ JobInit
  /\ FunctionsIdle
  /\ \E n \in 1..MaxPdfPages :
       \/ \E nm \in PlainUploads :
            /\ upload = [name |-> nm, files |-> {}, pdf_pages |-> n]
            /\ runs = [r \in Runs |-> NoRun]
       \/ \E S \in SUBSET Members :
            /\ Cardinality(S) <= MaxMembers
            /\ upload = [name |-> ZipUpload, files |-> S, pdf_pages |-> n]
            /\ \E l1, l2 \in Listings(S) :
                 runs = [r \in Runs |-> [NoRun EXCEPT !.listing = IF r = 1 THEN l1 ELSE l2]]

\* pipeline.py:50  page_images = prepare_pages(upload_target, pages_dir)
run_prepare(r) ==
  /\ ~runs[r].prepared
  /\ LET res == prepare_pages(upload.name, runs[r].listing, upload.pdf_pages)
     IN  runs' = [runs EXCEPT ![r].prepared = TRUE,
                              ![r].raised = res.raised,
                              ![r].page_images = res.pages]
  /\ UNCHANGED << registry, lock, pc, suffix, page_images, idx, page_results,
                  summary_counts, exc, detectCalls, skipped, statusLog,
                  stampLog, upload, reader, functions >>

\* pipeline.py:58-117  the next page of the for loop: its PageResult is
\* appended (page_name = page_path.name, source_path = page_path).
run_page(r) ==
  /\ runs[r].prepared
  /\ Len(runs[r].page_results) < Len(runs[r].page_images)
  /\ LET page_path == runs[r].page_images[Len(runs[r].page_results) + 1]
     IN  runs' = [runs EXCEPT ![r].page_results =
                    Append(@, [page_name |-> Name(page_path), source_path |-> page_path])]
  /\ UNCHANGED << registry, lock, pc, suffix, page_images, idx, page_results,
                  summary_counts, exc, detectCalls, skipped, statusLog,
                  stampLog, upload, reader, functions >>

OrderingNext == \E r \in Runs : run_prepare(r) \/ run_page(r)

OrderingSpec == OrderingInit /\ [][OrderingNext]_vars

RunEnded(r) ==
  runs[r].prepared /\ Len(runs[r].page_results) = Len(runs[r].page_images)

\* The PageResults of execution r are in ascending natural order of their
\* paths relative to the pages directory.
NaturalAscending(r) ==
  \A a, b \in 1..Len(runs[r].page_results) :
    a < b => ~KeyLess(natural_key(runs[r].page_results[b].source_path),
                      natural_key(runs[r].page_results[a].source_path))

\* C9: the PageResults of a job are in ascending natural order of the pages'
\* relative paths, and two executions on the same upload that list the
\* archive's files in different orders store the same sequence of pages.
C9_PageOrder ==
  /\ \A r \in Runs : NaturalAscending(r)
  /\ (RunEnded(1) /\ RunEnded(2)) => runs[1].page_results = runs[2].page_results

----
\* A thread that is running keeps running: every step of a worker, and the
\* return of save in the request thread, is eventually taken once it stays
\* possible.  Nothing forces a new upload to arrive.
Fairness == \A j \in JobIds : WF_vars(process_job(j)) /\ WF_vars(add_task(j))

LiveSpec == Spec /\ Fairness

----
\* Properties of the job lifecycle.

Registered == DOMAIN registry

StatusOf(j) == IF j \in Registered THEN registry[j].status ELSE "none"

IsPrefix(s, t) == Len(s) <= Len(t) /\ s = SubSeq(t, 1, Len(s))

\* C1: the values assigned to a job's status, in order, form a prefix of
\* pending, running, completed or of pending, running, failed: no value is
\* assigned out of order and a terminal status is assigned at most once.
C1_StatusSequence ==
  \A j \in Registered :
    /\ \/ IsPrefix(statusLog[j], << "pending", "running", "completed" >>)
       \/ IsPrefix(statusLog[j], << "pending", "running", "failed" >>)
    /\ registry[j].status = statusLog[j][Len(statusLog[j])]

\* The status of job j when the JobManager transition its thread is in was
\* called.
StatusAtCall(j) ==
  IF pc[j] \in {"mark_running", "mc_stamp", "mf_error", "mf_stamp"}
    THEN statusLog[j][Len(statusLog[j]) - 1]
    ELSE registry[j].status

InTransition(j) ==
  pc[j] \in {"call_mark_running", "mark_running", "call_mark_completed",
             "mc_stamp", "except", "mf_error", "mf_stamp"}

\* C2: a transition (mark_running, mark_completed, mark_failed) called on a
\* job whose status is already completed or failed is not accepted: none of
\* its steps changes the job's status, completed_at or error.
C2_TerminalAbsorbing ==
  [][\A j \in Registered :
       (InTransition(j) /\ StatusAtCall(j) \in Terminal) =>
          /\ registry'[j].status = registry[j].status
          /\ registry'[j].completed_at = registry[j].completed_at
          /\ registry'[j].error = registry[j].error]_vars

\* C3: whenever no JobManager transition of the job is in progress,
\* completed_at is null exactly while the status is pending or running, and
\* completed_at has been assigned at most once.
C3_CompletedAt ==
  \A j \in Registered :
    lock # j =>
      /\ registry[j].status \in Terminal <=> registry[j].completed_at # Null
      /\ stampLog[j] = (IF registry[j].completed_at # Null THEN 1 ELSE 0)

\* C4: once an error has been raised inside the try block of process_job no
\* further page is read or processed; the job never completes; and when the
\* caller sees the error the record is failed, stamped, and carries the
\* message of that error.
C4_ErrorRecordedThenRaised ==
  /\ [](\A j \in Registered :
          /\ pc[j] = "raised" =>
                /\ exc[j] # Null
                /\ registry[j].status = "failed"
                /\ registry[j].error = exc[j]
                /\ registry[j].completed_at # Null
          /\ exc[j] # Null => pc[j] # "done" /\ registry[j].status # "completed")
  /\ [][\A j \in Registered :
          exc[j] # Null =>
             /\ exc'[j] = exc[j]
             /\ idx'[j] = idx[j]
             /\ detectCalls'[j] = detectCalls[j]
             /\ page_results'[j] = page_results[j]
             /\ skipped'[j] = skipped[j]]_vars

\* A job failed by an error of its second page: a page was left unprocessed
\* and the caller has seen the error.
C4_Witness ==
  \E j \in Registered :
    /\ pc[j] = "raised"
    /\ exc[j] = MsgPage
    /\ Len(page_results[j]) = 1
    /\ registry[j].status = "failed"

\* C5: the record of a job that failed holds the PageResults of the pages
\* processed before the failure, in order.
C5_PartialPagesKept ==
  \A j \in Registered :
    pc[j] = "raised" => registry[j].pages = page_results[j]

\* C6: a job with a page whose image could not be read does not end
\* completed: process_job ends by raising, with the job failed, an error
\* message recorded and no page after the unreadable one processed.
C6_UnreadablePageFails ==
  \A j \in Registered :
    (pc[j] \in {"done", "raised"} /\ skipped[j] # {}) =>
       /\ registry[j].status = "failed"
       /\ registry[j].error # Null
       /\ \A p \in skipped[j] :
            \A i \in 1..Len(page_results[j]) : page_results[j][i].page_name < p

\* C7: for an upload that is no PDF, image or zip the detector is never
\* invoked, no PageResult is built, the record's pages stay empty and its
\* summary counts zero, the job never completes, and when process_job has
\* ended the job is failed with the unsupported-type message.
C7_UnsupportedUpload ==
  \A j \in Registered :
    suffix[j] = "unsupported" =>
      /\ detectCalls[j] = 0
      /\ page_results[j] = << >>
      /\ registry[j].pages = << >>
      /\ registry[j].summary = ZeroSummary
      /\ pc[j] \in {"except", "mf_error", "mf_stamp", "raised"}
      /\ registry[j].status \in {"running", "failed"}
      /\ pc[j] = "raised" =>
            registry[j].status = "failed" /\ registry[j].error = MsgUnsupported

\* An unsupported upload whose job has ended, next to a job that completed
\* with pages.
C7_Witness ==
  \E j, k \in Registered :
    /\ suffix[j] = "unsupported"
    /\ pc[j] = "raised"
    /\ registry[j].status = "failed"
    /\ pc[k] = "done"
    /\ registry[k].pages # << >>

\* C8: a running job eventually is completed or failed, and from running
\* the status only ever goes to completed or failed.
C8_RunningEnds ==
  /\ \A j \in JobIds : (StatusOf(j) = "running") ~> (StatusOf(j) \in Terminal)
  /\ [][\A j \in Registered :
          registry[j].status = "running" =>
             registry'[j].status \in {"running", "completed", "failed"}]_vars

\* Two jobs that both went through running, one to completed and one to
\* failed.
C8_Witness ==
  \E j, k \in Registered :
    /\ registry[j].status = "completed" /\ statusLog[j][2] = "running"
    /\ registry[k].status = "failed" /\ statusLog[k][2] = "running"

\* C10: every step that writes a job's record is taken by a thread that
\* holds the registry lock.
C10_WritesUnderLock ==
  [][\A j \in Registered :
       registry'[j] # registry[j] => (lock = j \/ lock' = j)]_vars

----
\* Overlap suppression: filter_signature_overlaps on the detections of one
\* page.  A detection is a DetectionBox (detector.py:15-19): label,
\* confidence (in hundredths) and bbox = << x1, y1, x2, y2 >> in pixels.

Max(a, b) == IF a >= b THEN a ELSE b

Min(a, b) == IF a <= b THEN a ELSE b

\* A quotient n / d of two numbers, kept exact.
Quotient(n, d) == [n |-> n, d |-> d]

\* q >= n / d for a quotient q with a positive denominator.
AtLeast(q, n, d) == q.n * d >= n * q.d

\* q < n / d for a quotient q with a positive denominator.
Below(q, n, d) == q.n * d < n * q.d

\* pipeline.py:241-243
_bbox_area(box) == Max(0, box[3] - box[1]) * Max(0, box[4] - box[2])

\* pipeline.py:246-255 with min and max exchanged: the area of the smallest
\* box around both.
_intersection_area_hull(a, b) ==
  LET inter_x1 == Min(a[1], b[1])
      inter_y1 == Min(a[2], b[2])
      inter_x2 == Max(a[3], b[3])
      inter_y2 == Max(a[4], b[4])
  IN  IF inter_x2 <= inter_x1 \/ inter_y2 <= inter_y1
        THEN 0
        ELSE (inter_x2 - inter_x1) * (inter_y2 - inter_y1)

\* pipeline.py:246-255
_intersection_area(a, b) ==
  LET inter_x1 == Max(a[1], b[1])
      inter_y1 == Max(a[2], b[2])
      inter_x2 == Min(a[3], b[3])
      inter_y2 == Min(a[4], b[4])
  IN  IF inter_x2 <= inter_x1 \/ inter_y2 <= inter_y1
        THEN 0
        ELSE (inter_x2 - inter_x1) * (inter_y2 - inter_y1)

\* The outcome of a call: the value returned, or ZeroDivisionError raised.
Returned(v) == [raised |-> FALSE, value |-> v]

ZeroDivisionError == [raised |-> TRUE, value |-> FALSE]

\* pipeline.py:222-237 with the loop left after the stamp listed first.
stamp_loop_first_only(sig_box, sig_area, stamps, k) ==
  IF k > Len(stamps) \/ k > 1 THEN Returned(FALSE)
  ELSE LET stamp_box == stamps[k].bbox
           inter_area == _intersection_area(sig_box, stamp_box)
           stamp_area == _bbox_area(stamp_box)
           union == sig_area + stamp_area - inter_area
       IN  IF inter_area = 0 \/ sig_area = 0 THEN Returned(FALSE)
           ELSE IF AtLeast(Quotient(inter_area, sig_area), 9, 10) THEN Returned(TRUE)
           ELSE IF stamp_area = 0 \/ union = 0 THEN Returned(FALSE)
           ELSE Returned(AtLeast(Quotient(inter_area, union), 6, 10))

\* pipeline.py:222-237  the for loop over the stamps, from stamp k on.
RECURSIVE stamp_loop(_, _, _, _)
stamp_loop(sig_box, sig_area, stamps, k) ==
  IF k > Len(stamps) THEN Returned(FALSE)
  ELSE LET stamp_box == stamps[k].bbox
           inter_area == _intersection_area(sig_box, stamp_box)
           stamp_area == _bbox_area(stamp_box)
           union == sig_area + stamp_area - inter_area
       IN  IF inter_area = 0 THEN stamp_loop(sig_box, sig_area, stamps, k + 1)
           ELSE IF sig_area = 0 THEN ZeroDivisionError
           ELSE IF AtLeast(Quotient(inter_area, sig_area), 9, 10) THEN Returned(TRUE)
           ELSE IF stamp_area = 0 THEN stamp_loop(sig_box, sig_area, stamps, k + 1)
           ELSE IF union = 0 THEN ZeroDivisionError
           ELSE IF AtLeast(Quotient(inter_area, union), 6, 10) THEN Returned(TRUE)
           ELSE stamp_loop(sig_box, sig_area, stamps, k + 1)

\* pipeline.py:216-238 with the coverage quotient computed on entering the
\* loop, before the zero-area return and the empty-intersection skip.
_signature_inside_stamp_eager(signature, stamps) ==
  LET sig_box == signature.bbox
      sig_area == _bbox_area(sig_box)
  IN  IF stamps # << >> /\ sig_area = 0 THEN ZeroDivisionError
      ELSE stamp_loop(sig_box, sig_area, stamps, 1)

\* pipeline.py:216-238
_signature_inside_stamp(signature, stamps) ==
  LET sig_box == signature.bbox
      sig_area == _bbox_area(sig_box)
  IN  IF sig_area = 0 THEN Returned(FALSE)
      ELSE stamp_loop(sig_box, sig_area, stamps, 1)

\* pipeline.py:205-212 with the kept detections collected in reverse.
RECURSIVE filter_loop_reversed(_, _, _)
filter_loop_reversed(detections, stamps, k) ==
  IF k > Len(detections) THEN Returned(<< >>)
  ELSE LET det == detections[k]
           inside == IF det.label # "signature" THEN Returned(FALSE)
                     ELSE _signature_inside_stamp(det, stamps)
           rest == filter_loop_reversed(detections, stamps, k + 1)
       IN  IF inside.raised \/ rest.raised THEN ZeroDivisionError
           ELSE IF inside.value THEN rest
           ELSE Returned(rest.value \o << det >>)

\* pipeline.py:205-212  the for loop over the detections, from detection k on.
RECURSIVE filter_loop(_, _, _)
filter_loop(detections, stamps, k) ==
  IF k > Len(detections) THEN Returned(<< >>)
  ELSE LET det == detections[k]
           inside == IF det.label # "signature" THEN Returned(FALSE)
                     ELSE _signature_inside_stamp(det, stamps)
           rest == filter_loop(detections, stamps, k + 1)
       IN  IF inside.raised \/ rest.raised THEN ZeroDivisionError
           ELSE IF inside.value THEN rest
           ELSE Returned(<< det >> \o rest.value)

\* pipeline.py:196-213
filter_signature_overlaps(detections) ==
  LET stamps == SelectSeq(detections, LAMBDA det : det.label = "stamp")
  IN  IF detections = << >> THEN Returned(detections)
      ELSE IF stamps = << >> THEN Returned(detections)
      ELSE filter_loop(detections, stamps, 1)

\* The inputs of the calls: detections of at most MaxDets boxes.
MaxDets == 3

Labels == {"signature", "stamp", "qr"}

SignatureBox == << 0, 0, 10, 10 >>

\* Boxes placed around SignatureBox: one that contains it, one that covers
\* nine tenths of it, one with IoU 0.6 and coverage 0.6, one with IoU 0.8
\* and coverage 0.8, one with IoU and coverage 0.5, one that touches its
\* right edge, one of zero width and one with x2 < x1.
Boxes ==
  { SignatureBox, << 0, 0, 30, 30 >>, << 1, 0, 30, 10 >>, << 0, 0, 10, 6 >>,
    << 2, 0, 10, 10 >>, << 0, 0, 10, 5 >>, << 10, 0, 20, 10 >>,
    << 3, 3, 3, 8 >>, << 8, 2, 5, 9 >> }

DetectionBox(label, confidence, bbox) ==
  [label |-> label, confidence |-> confidence, bbox |-> bbox]

\* What the detector can return for a page of the overlap calls.
OverlapDetections ==
  { DetectionBox(l, 90, b) : l \in Labels, b \in Boxes }

\* The sequences over S of length at most n.
SeqUpTo(S, n) == UNION { [1..m -> S] : m \in 0..n }

OverlapInit ==
  /\ JobsIdle
  /\ page = NoCall /\ qr = NoCall /\ review = NoCall
  /\ heat = NoCall /\ evaluation = NoCall
  /\ \E ds \in SeqUpTo(OverlapDetections, MaxDets) :
       overlap = [pc |-> "called", detections |-> ds, result |-> Returned(<< >>)]

\* pipeline.py:69  detections = filter_signature_overlaps(detections)
overlap_return ==
  /\ overlap.pc = "called"
  /\ LET result == filter_signature_overlaps(overlap.detections)
     IN  overlap' = [overlap EXCEPT !.pc = IF result.raised THEN "raised" ELSE "returned",
                                    !.result = result]
  /\ UNCHANGED << registry, lock, pc, statusLog, stampLog, suffix, page_images,
                  idx, page_results, summary_counts, exc, detectCalls, skipped,
                  ordering, reader, page, qr, review, heat, evaluation >>

OverlapNext == overlap_return

OverlapSpec == OverlapInit /\ [][OverlapNext]_vars

\* Properties of overlap suppression.

Count(seq, x) == Cardinality({ i \in DOMAIN seq : seq[i] = x })

\* s is a subsequence of t: the elements of s occur in t in the same order.
RECURSIVE IsSubsequence(_, _)
IsSubsequence(s, t) ==
  IF s = << >> THEN TRUE
  ELSE IF t = << >> THEN FALSE
  ELSE IF Head(s) = Head(t) THEN IsSubsequence(Tail(s), Tail(t))
  ELSE IsSubsequence(s, Tail(t))

Reorderings(seq) ==
  { [i \in DOMAIN seq |-> seq[f[i]]] : f \in Listings(DOMAIN seq) }

IsSignature(det) == det.label = "signature"

IsStamp(det) == det.label = "stamp"

PositiveArea(box) == box[3] > box[1] /\ box[4] > box[2]

\* inter(S, T) / area(S) >= 0.9, for a signature box S of positive area.
Covers(S, T) == 10 * _intersection_area(S, T) >= 9 * _bbox_area(S)

\* IoU(S, T) >= 0.6, for a signature box S of positive area.
Overlaps(S, T) ==
  10 * _intersection_area(S, T) >=
    6 * (_bbox_area(S) + _bbox_area(T) - _intersection_area(S, T))

StampsOf(ds) == SelectSeq(ds, IsStamp)

Removed(det) == Count(overlap.result.value, det) = 0

Kept(det) == Count(overlap.result.value, det) = Count(overlap.detections, det)

\* C14: a signature of positive area is removed exactly when some stamp of
\* the page covers at least 0.9 of it or has IoU at least 0.6 with it, and
\* the decision is the same for every order in which the stamps are listed.
C14_SuppressionRule ==
  overlap.pc = "returned" =>
    \A i \in DOMAIN overlap.detections :
      LET S == overlap.detections[i]
          stamps == StampsOf(overlap.detections)
          some == \E k \in DOMAIN stamps :
                    Covers(S.bbox, stamps[k].bbox) \/ Overlaps(S.bbox, stamps[k].bbox)
      IN  (IsSignature(S) /\ PositiveArea(S.bbox)) =>
            /\ Removed(S) <=> some
            /\ ~some => Kept(S)
            /\ \A listed \in Reorderings(stamps) :
                 _signature_inside_stamp(S, listed) = Returned(some)

\* A signature was removed by the IoU test of the stamp listed second:
\* no stamp covers 0.9 of it and the first stamp does not suppress it.
C14_Witness ==
  /\ overlap.pc = "returned"
  /\ \E i \in DOMAIN overlap.detections :
       LET S == overlap.detections[i]
           stamps == StampsOf(overlap.detections)
       IN  /\ IsSignature(S) /\ PositiveArea(S.bbox) /\ Removed(S)
           /\ Len(stamps) >= 2
           /\ \A k \in DOMAIN stamps : ~Covers(S.bbox, stamps[k].bbox)
           /\ ~Overlaps(S.bbox, stamps[1].bbox)

\* C15: a signature of positive area that lies wholly inside a stamp is
\* absent from the output, and a signature whose intersection with every
\* stamp is empty (its edge touching a stamp, or no stamp at all) is present.
C15_ContainedAndDisjoint ==
  overlap.pc = "returned" =>
    \A i \in DOMAIN overlap.detections :
      LET S == overlap.detections[i]
          stamps == StampsOf(overlap.detections)
      IN  IsSignature(S) =>
            /\ (/\ PositiveArea(S.bbox)
                /\ \E k \in DOMAIN stamps :
                     _intersection_area(S.bbox, stamps[k].bbox) = _bbox_area(S.bbox))
                 => Removed(S)
            /\ (\A k \in DOMAIN stamps :
                  \/ S.bbox[3] <= stamps[k].bbox[1] \/ stamps[k].bbox[3] <= S.bbox[1]
                  \/ S.bbox[4] <= stamps[k].bbox[2] \/ stamps[k].bbox[4] <= S.bbox[2])
                 => Kept(S)

\* One signature inside a stamp was removed and another one, whose edge
\* touches a stamp, was kept.
C15_Witness ==
  /\ overlap.pc = "returned"
  /\ \E i, j \in DOMAIN overlap.detections :
       LET S == overlap.detections[i]
           U == overlap.detections[j]
           stamps == StampsOf(overlap.detections)
       IN  /\ IsSignature(S) /\ PositiveArea(S.bbox) /\ Removed(S)
           /\ \E k \in DOMAIN stamps :
                _intersection_area(S.bbox, stamps[k].bbox) = _bbox_area(S.bbox)
           /\ IsSignature(U) /\ PositiveArea(U.bbox) /\ Kept(U)
           /\ \E k \in DOMAIN stamps : U.bbox[3] = stamps[k].bbox[1]
           /\ \A k \in DOMAIN stamps :
                _intersection_area(U.bbox, stamps[k].bbox) = 0

\* C16: the detections that are not signatures are all in the output,
\* unchanged and in their order, and the output is a subsequence of the input.
C16_SuppressionFrame ==
  overlap.pc = "returned" =>
    /\ IsSubsequence(overlap.result.value, overlap.detections)
    /\ SelectSeq(overlap.result.value, LAMBDA det : ~IsSignature(det))
         = SelectSeq(overlap.detections, LAMBDA det : ~IsSignature(det))

\* A signature between two other detections was removed.
C16_Witness ==
  /\ overlap.pc = "returned"
  /\ Len(overlap.detections) = 3
  /\ Len(overlap.result.value) = 2
  /\ IsSignature(overlap.detections[2])
  /\ overlap.detections[1] # overlap.detections[3]
  /\ overlap.result.value = << overlap.detections[1], overlap.detections[3] >>

ZeroArea(box) == box[3] <= box[1] \/ box[4] <= box[2]

\* C17: a signature of zero area is kept, and no call divides by zero.
C17_ZeroAreaSignature ==
  /\ overlap.pc # "raised"
  /\ overlap.pc = "returned" =>
       \A i \in DOMAIN overlap.detections :
         (IsSignature(overlap.detections[i]) /\ ZeroArea(overlap.detections[i].bbox))
           => Kept(overlap.detections[i])

\* A zero-area signature lying inside a stamp was kept.
C17_Witness ==
  /\ overlap.pc = "returned"
  /\ \E i, k \in DOMAIN overlap.detections :
       LET S == overlap.detections[i]
           T == overlap.detections[k]
       IN  /\ IsSignature(S) /\ ZeroArea(S.bbox) /\ IsStamp(T)
           /\ T.bbox[1] <= S.bbox[1] /\ S.bbox[3] <= T.bbox[3]
           /\ T.bbox[2] <= S.bbox[2] /\ S.bbox[4] <= T.bbox[4]
           /\ Kept(S)

----
\* The review flag: analyze_review_need on the detections and QR hits of one
\* page.  Confidences and the two settings are in hundredths.

\* pipeline.py:186-190 with the second test of the loop left out.
analyze_review_need_low_only(detections, qr_hits, low_conf_threshold, high_conf_threshold) ==
  LET review_low == Quotient(Max(0, low_conf_threshold * 6), 10)
  IN  IF detections = << >> /\ qr_hits = << >> THEN FALSE
      ELSE \E k \in DOMAIN detections :
             Below(Quotient(detections[k].confidence, 1), review_low.n, review_low.d)

\* pipeline.py:176-191  the loop returns True at the first detection that
\* passes one of its two tests.
analyze_review_need(detections, qr_hits, low_conf_threshold, high_conf_threshold) ==
  LET review_low == Quotient(Max(0, low_conf_threshold * 6), 10)
      review_high == Quotient(Max(review_low.n, high_conf_threshold * 6), 10)
      confidence(det) == Quotient(det.confidence, 1)
  IN  IF detections = << >> /\ qr_hits = << >> THEN FALSE
      ELSE \E k \in DOMAIN detections :
             \/ Below(confidence(detections[k]), review_low.n, review_low.d)
             \/ /\ ~Below(confidence(detections[k]), review_low.n, review_low.d)
                /\ Below(confidence(detections[k]), review_high.n, review_high.d)

\* config.py:52-53  the defaults 0.5 and 0.8, and other values Settings
\* accepts for the two fields.
Thresholds == {-10, 50, 80}

\* Confidences around 0.6 * 0.5 = 0.30 and 0.6 * 0.8 = 0.48.
Confidences == {0, 29, 30, 40, 47, 48, 90}

ReviewDetections == { DetectionBox("signature", c, SignatureBox) : c \in Confidences }

\* The lists of QR hits of the review calls: none, or one decoded text.
ReviewQrHits == { << >>, << "text" >> }

ReviewInit ==
  /\ JobsIdle
  /\ page = NoCall /\ qr = NoCall /\ overlap = NoCall
  /\ heat = NoCall /\ evaluation = NoCall
  /\ \E ds \in SeqUpTo(ReviewDetections, MaxDets), hits \in ReviewQrHits,
        low \in Thresholds, high \in Thresholds :
       review = [pc |-> "called", detections |-> ds, qr_hits |-> hits,
                 low_conf_threshold |-> low, high_conf_threshold |-> high,
                 requires_review |-> FALSE]

\* pipeline.py:105  requires_review = analyze_review_need(detections, qr_hits)
review_return ==
  /\ review.pc = "called"
  /\ review' = [review EXCEPT
                  !.pc = "returned",
                  !.requires_review =
                     analyze_review_need(review.detections, review.qr_hits,
                                         review.low_conf_threshold,
                                         review.high_conf_threshold)]
  /\ UNCHANGED << registry, lock, pc, statusLog, stampLog, suffix, page_images,
                  idx, page_results, summary_counts, exc, detectCalls, skipped,
                  ordering, reader, page, qr, overlap, heat, evaluation >>

ReviewNext == review_return

ReviewSpec == ReviewInit /\ [][ReviewNext]_vars

\* C18: with review_low = 0.6 * low and review_high the larger of review_low
\* and 0.6 * high, a page is flagged exactly when one of its detections has a
\* confidence below review_high; a page without detections is never flagged,
\* with or without QR hits; 0.40 is flagged under the settings 0.5 and 0.8.
C18_ReviewFlag ==
  review.pc = "returned" =>
    LET low6 == 6 * review.low_conf_threshold
        high6 == 6 * review.high_conf_threshold
        review_high10 == IF low6 >= high6 THEN low6 ELSE high6
    IN  /\ review.requires_review <=>
             \E k \in DOMAIN review.detections :
               10 * review.detections[k].confidence < review_high10
        /\ review.detections = << >> => ~review.requires_review
        /\ (/\ review.low_conf_threshold = 50 /\ review.high_conf_threshold = 80
            /\ \E k \in DOMAIN review.detections : review.detections[k].confidence = 40)
             => review.requires_review

\* Under the settings 0.5 and 0.8 a page whose least confident detection has
\* confidence 0.40, between review_low and review_high, was flagged.
C18_Witness ==
  /\ review.pc = "returned"
  /\ review.low_conf_threshold = 50 /\ review.high_conf_threshold = 80
  /\ Len(review.detections) >= 2
  /\ \E k \in DOMAIN review.detections : review.detections[k].confidence = 40
  /\ \A k \in DOMAIN review.detections : review.detections[k].confidence >= 40
  /\ review.requires_review

----
\* The page loop of one job with the detector's labels: what each page adds
\* to summary_counts and to page_results.

MaxQrHits == 1

StampBox == << 0, 0, 30, 30 >>

\* What detection_service.detect can return for a page: nothing, a lone
\* signature, a signature inside a stamp, a signature and a stamp apart, a
\* QR code found by the detector (class 2 of the trained weights), a
\* detection of a class the summary has no key for.
DetectorOutputs ==
  { << >>,
    << DetectionBox("signature", 90, SignatureBox) >>,
    << DetectionBox("signature", 90, SignatureBox), DetectionBox("stamp", 90, StampBox) >>,
    << DetectionBox("stamp", 90, << 10, 0, 20, 10 >>), DetectionBox("signature", 40, SignatureBox) >>,
    << DetectionBox("qr", 90, SignatureBox) >>,
    << DetectionBox("seal", 90, SignatureBox), DetectionBox("stamp", 90, StampBox) >> }

PageInit ==
  /\ JobsIdle
  /\ qr = NoCall /\ overlap = NoCall /\ review = NoCall
  /\ heat = NoCall /\ evaluation = NoCall
  /\ \E n \in 1..MaxPages :
       page = [pc |-> "loop", page_images |-> n, idx |-> 1, page_results |-> << >>,
               summary_counts |-> ZeroSummary, summary |-> ZeroSummary]

\* pipeline.py:100-103  the counts after the detections and QR hits of a page.
RECURSIVE count_detections(_, _, _)
count_detections(counts, detections, k) ==
  IF k > Len(detections) THEN counts
  ELSE LET label == detections[k].label
       IN  count_detections(
             IF label \in DOMAIN counts THEN [counts EXCEPT ![label] = @ + 1] ELSE counts,
             detections, k + 1)

page_unchanged ==
  UNCHANGED << registry, lock, pc, statusLog, stampLog, suffix, page_images,
               idx, page_results, summary_counts, exc, detectCalls, skipped,
               ordering, reader, qr, overlap, review, heat, evaluation >>

\* pipeline.py:64-66  cv2.imread returned None: continue.
page_skipped ==
  /\ page.pc = "loop" /\ page.idx <= page.page_images
  /\ page' = [page EXCEPT !.idx = @ + 1]
  /\ page_unchanged

\* pipeline.py:68-117  one readable page: detect, filter_signature_overlaps,
\* the QR detector, the counts, the PageResult appended.
page_analyzed ==
  /\ page.pc = "loop" /\ page.idx <= page.page_images
  /\ \E detected \in DetectorOutputs, hits \in 0..MaxQrHits :
       LET detections == filter_signature_overlaps(detected).value
           counted == count_detections(page.summary_counts, detections, 1)
       IN  page' = [page EXCEPT
                      !.idx = @ + 1,
                      !.summary_counts = [counted EXCEPT !["qr"] = @ + hits],
                      !.page_results =
                         Append(@, [detections |-> detections, qr_codes |-> hits,
                                    requires_review |->
                                      analyze_review_need(
                                        detections, [h \in 1..hits |-> "text"], 50, 80)])]
  /\ page_unchanged

\* pipeline.py:119-121  job.pages, job.summary and job.status are stored.
page_completed ==
  /\ page.pc = "loop" /\ page.idx > page.page_images
  /\ page' = [page EXCEPT !.pc = "completed", !.summary = page.summary_counts]
  /\ page_unchanged

PageNext == page_skipped \/ page_analyzed \/ page_completed

PageSpec == PageInit /\ [][PageNext]_vars

\* The number of detections labelled label in the stored pages, from page k on.
RECURSIVE Survivors(_, _)
Survivors(label, k) ==
  IF k > Len(page.page_results) THEN 0
  ELSE Cardinality({ i \in DOMAIN page.page_results[k].detections :
                       page.page_results[k].detections[i].label = label })
       + Survivors(label, k + 1)

\* The number of accepted QR hits in the stored pages, from page k on.
RECURSIVE QrHits(_)
QrHits(k) ==
  IF k > Len(page.page_results) THEN 0
  ELSE page.page_results[k].qr_codes + QrHits(k + 1)

\* C11: in a completed job the summary's signature and stamp counts are the
\* numbers of detections with that label that survived overlap suppression,
\* over all pages, and its qr count is the number of accepted QR hits over
\* all pages, whatever the labels of the detections.
C11_SummaryCounts ==
  page.pc = "completed" =>
    /\ page.summary["signature"] = Survivors("signature", 1)
    /\ page.summary["stamp"] = Survivors("stamp", 1)
    /\ page.summary["qr"] = QrHits(1)

----
\* QR detection: QRDetector.detect on one image.  A text is a sequence of
\* characters, a quad a sequence of points << x, y >> in pixels, an image
\* shape is << height, width >>.  Ratios are kept exact, and an edge length
\* np.hypot(dx, dy) is kept as its square dx^2 + dy^2.

\* qr_detector.py:86-92
MIN_TEXT_LENGTH == 4

MIN_QR_AREA_RATIO == Quotient(1, 1000)

MAX_QR_AREA_RATIO == Quotient(3, 100)

MIN_SIDE_PX == 48

ASPECT_RATIO_MIN == Quotient(7, 10)

ASPECT_RATIO_MAX == Quotient(13, 10)

EDGE_RATIO_MAX == Quotient(5, 4)

\* str.strip: the text without its leading and trailing blanks.
RECURSIVE strip(_)
strip(text) ==
  IF text = << >> THEN text
  ELSE IF Head(text) = " " THEN strip(Tail(text))
  ELSE IF text[Len(text)] = " " THEN strip(SubSeq(text, 1, Len(text) - 1))
  ELSE text

MinOf(S) == CHOOSE m \in S : \A n \in S : m <= n

MaxOf(S) == CHOOSE m \in S : \A n \in S : m >= n

\* qr_detector.py:117-121  the squared lengths of the edges of quad, each
\* point joined to the next and the last to the first.
edge_lengths(quad) ==
  { (quad[i][1] - quad[(i % Len(quad)) + 1][1]) * (quad[i][1] - quad[(i % Len(quad)) + 1][1])
    + (quad[i][2] - quad[(i % Len(quad)) + 1][2]) * (quad[i][2] - quad[(i % Len(quad)) + 1][2])
    : i \in DOMAIN quad }

\* qr_detector.py:96-126 with the test of the edge lengths left out.
passes_without_edges(text, quad, image_area) ==
  LET xs == { quad[i][1] : i \in DOMAIN quad }
      ys == { quad[i][2] : i \in DOMAIN quad }
      width_px == MaxOf(xs) - MinOf(xs)
      height_px == MaxOf(ys) - MinOf(ys)
      area_ratio == Quotient(width_px * height_px, image_area)
      aspect_ratio == Quotient(width_px, height_px)
  IN  IF text = << >> \/ Len(strip(text)) < MIN_TEXT_LENGTH THEN FALSE
      ELSE IF width_px <= 0 \/ height_px <= 0 THEN FALSE
      ELSE IF width_px < MIN_SIDE_PX \/ height_px < MIN_SIDE_PX THEN FALSE
      ELSE IF \/ Below(area_ratio, MIN_QR_AREA_RATIO.n, MIN_QR_AREA_RATIO.d)
              \/ ~AtLeast(MAX_QR_AREA_RATIO, area_ratio.n, area_ratio.d) THEN FALSE
      ELSE IF ~(/\ AtLeast(aspect_ratio, ASPECT_RATIO_MIN.n, ASPECT_RATIO_MIN.d)
                /\ AtLeast(ASPECT_RATIO_MAX, aspect_ratio.n, aspect_ratio.d)) THEN FALSE
      ELSE TRUE

\* qr_detector.py:96-126  the body of the loop of _filter: TRUE when the
\* candidate is appended, FALSE when a test continues.
passes(text, quad, image_area) ==
  LET xs == { quad[i][1] : i \in DOMAIN quad }
      ys == { quad[i][2] : i \in DOMAIN quad }
      width_px == MaxOf(xs) - MinOf(xs)
      height_px == MaxOf(ys) - MinOf(ys)
      area_ratio == Quotient(width_px * height_px, image_area)
      aspect_ratio == Quotient(width_px, height_px)
      min_edge == MinOf(edge_lengths(quad))
      max_edge == MaxOf(edge_lengths(quad))
  IN  IF text = << >> \/ Len(strip(text)) < MIN_TEXT_LENGTH THEN FALSE
      ELSE IF width_px <= 0 \/ height_px <= 0 THEN FALSE
      ELSE IF width_px < MIN_SIDE_PX \/ height_px < MIN_SIDE_PX THEN FALSE
      ELSE IF \/ Below(area_ratio, MIN_QR_AREA_RATIO.n, MIN_QR_AREA_RATIO.d)
              \/ ~AtLeast(MAX_QR_AREA_RATIO, area_ratio.n, area_ratio.d) THEN FALSE
      ELSE IF ~(/\ AtLeast(aspect_ratio, ASPECT_RATIO_MIN.n, ASPECT_RATIO_MIN.d)
                /\ AtLeast(ASPECT_RATIO_MAX, aspect_ratio.n, aspect_ratio.d)) THEN FALSE
      ELSE IF edge_lengths(quad) = {} THEN FALSE
      ELSE IF \/ min_edge <= 0
              \/ max_edge * EDGE_RATIO_MAX.d * EDGE_RATIO_MAX.d >
                   min_edge * EDGE_RATIO_MAX.n * EDGE_RATIO_MAX.n THEN FALSE
      ELSE TRUE

\* qr_detector.py:95-129  the loop over zip(decoded, boxes), from pair k on.
RECURSIVE filter_pairs(_, _, _, _)
filter_pairs(decoded, boxes, image_area, k) ==
  IF k > Len(decoded) \/ k > Len(boxes) THEN [data |-> << >>, boxes |-> << >>]
  ELSE LET rest == filter_pairs(decoded, boxes, image_area, k + 1)
       IN  IF passes(decoded[k], boxes[k], image_area)
             THEN [data |-> << decoded[k] >> \o rest.data,
                   boxes |-> << boxes[k] >> \o rest.boxes]
             ELSE rest

\* qr_detector.py:72-131
_filter(decoded, boxes, image_shape) ==
  LET height == image_shape[1]
      width == image_shape[2]
      image_area == Max(1, height * width)
  IN  IF decoded = << >> \/ boxes = << >> THEN [data |-> << >>, boxes |-> << >>]
      ELSE filter_pairs(decoded, boxes, image_area, 1)

\* The inputs of the calls: at most MaxCands candidates per engine.
MaxCands == 2

\* The axis-parallel w by h rectangle at (10, 10), from its top left corner.
Rect(w, h) == << << 10, 10 >>, << 10 + w, 10 >>, << 10 + w, 10 + h >>, << 10, 10 + h >> >>

\* The rhombus inscribed in the w by h rectangle at (0, 0): w and h even.
Diamond(w, h) ==
  << << w \div 2, 0 >>, << w, h \div 2 >>, << w \div 2, h >>, << 0, h \div 2 >> >>

\* Quads around the thresholds of the filter: squares of side 60, 40, 48
\* and 90, rectangles with edge ratio 1.25 and above, rhombi with aspect
\* ratio 0.7, 0.6, 1.3 and 1.4, a rhombus of 0.03 of the larger image, a
\* square with one corner pulled in and a quad with a repeated corner.
Quads ==
  { Rect(60, 60), Rect(40, 40), Rect(48, 48), Rect(90, 90), Rect(48, 60),
    Rect(48, 62), Diamond(70, 100), Diamond(60, 100), Diamond(130, 100),
    Diamond(140, 100), Diamond(300, 400),
    << << 0, 0 >>, << 60, 0 >>, << 60, 60 >>, << 0, 40 >> >>,
    << << 0, 0 >>, << 60, 0 >>, << 60, 60 >>, << 60, 60 >> >> }

GoodText == << "a", "b", "c", "d" >>

\* Five characters, three once trimmed.
ShortText == << " ", "a", "b", "c", " " >>

ImageShapes == { << 500, 500 >>, << 2000, 2000 >> }

Candidate(text, quad) == [text |-> text, quad |-> quad]

\* What detectAndDecodeMulti returns in the calls: every quad with a good
\* text, and a short or an empty text on a good and on a bad quad.
OpencvCandidates ==
  { Candidate(GoodText, q) : q \in Quads } \cup
  { Candidate(t, q) : t \in { ShortText, << >> }, q \in { Rect(60, 60), Rect(40, 40) } }

ZbarText == << "w", "x", "y", "z" >>

\* What an engine returned, as detect reads it: the texts and the quads.
EngineOutput(cands) ==
  [data |-> [i \in DOMAIN cands |-> cands[i].text],
   points |-> [i \in DOMAIN cands |-> cands[i].quad]]

\* What zbar_decode returns in the calls, when pyzbar could be imported
\* (qr_detector.py:9-12): nothing, a good code, a small one, or both.
ZbarOutputs ==
  { [installed |-> FALSE, data |-> << >>, points |-> << >>] } \cup
  { [installed |-> TRUE, data |-> EngineOutput(c).data, points |-> EngineOutput(c).points] :
      c \in { << >>, << Candidate(ZbarText, Rect(64, 64)) >>,
              << Candidate(ZbarText, Rect(40, 40)) >>,
              << Candidate(ZbarText, Rect(40, 40)), Candidate(ZbarText, Rect(64, 64)) >> } }

NoFilterResult == [data |-> << >>, boxes |-> << >>]

QrInit ==
  /\ JobsIdle
  /\ page = NoCall /\ overlap = NoCall /\ review = NoCall
  /\ heat = NoCall /\ evaluation = NoCall
  /\ \E cands \in SeqUpTo(OpencvCandidates, MaxCands),
        zbar \in ZbarOutputs, shape \in ImageShapes :
       qr = [pc |-> "detect", image_shape |-> shape,
             opencv |-> EngineOutput(cands), pyzbar |-> zbar,
             calls |-> << >>, cv |-> NoFilterResult, result |-> << >>]

\* One call of _filter, as the properties read it.
FilterCall(decoded, boxes, image_shape) ==
  [decoded |-> decoded, boxes |-> boxes, image_shape |-> image_shape,
   filtered |-> _filter(decoded, boxes, image_shape)]

\* [QRDetection(text=t, polygon=box) for t, box in zip(data, boxes)]
QRDetections(data, boxes) ==
  [i \in 1..Min(Len(data), Len(boxes)) |-> [text |-> data[i], polygon |-> boxes[i]]]

qr_unchanged ==
  UNCHANGED << registry, lock, pc, statusLog, stampLog, suffix, page_images,
               idx, page_results, summary_counts, exc, detectCalls, skipped,
               ordering, reader, page, overlap, review, heat, evaluation >>

\* qr_detector.py:29, 36-60  _detect_opencv: the empty texts are dropped,
\* every quad is kept, and the two lists go through _filter.
_detect_opencv ==
  /\ qr.pc = "detect"
  /\ LET decoded == SelectSeq(qr.opencv.data, LAMBDA d : d # << >>)
         boxes == qr.opencv.points
         call == FilterCall(decoded, boxes, qr.image_shape)
     IN  qr' = [qr EXCEPT !.pc = "opencv", !.calls = Append(@, call),
                          !.cv = call.filtered]
  /\ qr_unchanged

\* qr_detector.py:30-31  if decoded_cv: return the primary engine's codes.
detect_return ==
  /\ qr.pc = "opencv"
  /\ qr.cv.data # << >>
  /\ qr' = [qr EXCEPT !.pc = "returned",
                      !.result = QRDetections(qr.cv.data, qr.cv.boxes)]
  /\ qr_unchanged

\* qr_detector.py:33-34, 62-70 entered whatever the primary engine found,
\* its codes returned after the primary's.
_detect_pyzbar_appended ==
  /\ qr.pc = "opencv"
  /\ LET call == FilterCall(qr.pyzbar.data, qr.pyzbar.points, qr.image_shape)
         zbar == IF qr.pyzbar.installed THEN call.filtered ELSE NoFilterResult
     IN  qr' = [qr EXCEPT
                  !.pc = "returned",
                  !.calls = IF qr.pyzbar.installed THEN Append(@, call) ELSE @,
                  !.result = QRDetections(qr.cv.data, qr.cv.boxes)
                               \o QRDetections(zbar.data, zbar.boxes)]
  /\ qr_unchanged

\* qr_detector.py:33-34, 62-70  the primary engine has no code: the
\* fallback's candidates go through _filter and are returned.
_detect_pyzbar ==
  /\ qr.pc = "opencv"
  /\ qr.cv.data = << >>
  /\ LET call == FilterCall(qr.pyzbar.data, qr.pyzbar.points, qr.image_shape)
         zbar == IF qr.pyzbar.installed THEN call.filtered ELSE NoFilterResult
     IN  qr' = [qr EXCEPT
                  !.pc = "returned",
                  !.calls = IF qr.pyzbar.installed THEN Append(@, call) ELSE @,
                  !.result = QRDetections(zbar.data, zbar.boxes)]
  /\ qr_unchanged

QrNext == _detect_opencv \/ detect_return \/ _detect_pyzbar

QrSpec == QrInit /\ [][QrNext]_vars

\* Properties of QR detection.

TextLength(text) == Len(strip(text))

QuadWidth(quad) ==
  MaxOf({ quad[i][1] : i \in DOMAIN quad }) - MinOf({ quad[i][1] : i \in DOMAIN quad })

QuadHeight(quad) ==
  MaxOf({ quad[i][2] : i \in DOMAIN quad }) - MinOf({ quad[i][2] : i \in DOMAIN quad })

\* Both sides of the bounding box are at least 48 pixels.
SidesOk(quad) == QuadWidth(quad) >= 48 /\ QuadHeight(quad) >= 48

\* The bounding box area is between 0.001 and 0.03 of the image area.
AreaOk(quad, shape) ==
  /\ 1000 * QuadWidth(quad) * QuadHeight(quad) >= shape[1] * shape[2]
  /\ 100 * QuadWidth(quad) * QuadHeight(quad) <= 3 * shape[1] * shape[2]

\* Width over height is between 0.7 and 1.3.
AspectOk(quad) ==
  /\ 10 * QuadWidth(quad) >= 7 * QuadHeight(quad)
  /\ 10 * QuadWidth(quad) <= 13 * QuadHeight(quad)

\* The longest edge is at most 1.25 times the shortest: on the squares of
\* the lengths, at most 25/16 times.
EdgesOk(quad) ==
  /\ MinOf(edge_lengths(quad)) > 0
  /\ 16 * MaxOf(edge_lengths(quad)) <= 25 * MinOf(edge_lengths(quad))

Acceptable(text, quad, shape) ==
  /\ TextLength(text) >= 4
  /\ SidesOk(quad)
  /\ AreaOk(quad, shape)
  /\ AspectOk(quad)
  /\ EdgesOk(quad)

\* The positions of the pairs of a filter call that satisfy the five conditions.
AcceptablePairs(call) ==
  { i \in 1..Min(Len(call.decoded), Len(call.boxes)) :
      Acceptable(call.decoded[i], call.boxes[i], call.image_shape) }

\* The elements of seq at the positions of S, in ascending order of position.
RECURSIVE Pick(_, _, _)
Pick(seq, S, k) ==
  IF k > Len(seq) THEN << >>
  ELSE IF k \in S THEN << seq[k] >> \o Pick(seq, S, k + 1)
  ELSE Pick(seq, S, k + 1)

\* C12: the filter keeps a (text, quad) pair exactly when the trimmed text
\* has at least 4 characters, both sides of the quad's bounding box are at
\* least 48 pixels, the box's share of the image area is within
\* [0.001, 0.03], its width over height is within [0.7, 1.3] and the longest
\* edge of the quad is at most 1.25 times the shortest; the kept pairs are
\* in their original order, and a quad that fails the edge or the side test
\* is rejected whatever its text.
C12_FilterRule ==
  \A c \in DOMAIN qr.calls :
    LET call == qr.calls[c]
    IN  /\ call.filtered.data = Pick(call.decoded, AcceptablePairs(call), 1)
        /\ call.filtered.boxes = Pick(call.boxes, AcceptablePairs(call), 1)
        /\ \A i \in 1..Min(Len(call.decoded), Len(call.boxes)) :
             (~EdgesOk(call.boxes[i]) \/ ~SidesOk(call.boxes[i]))
               => Count(call.filtered.boxes, call.boxes[i])
                    <= Cardinality({ j \in AcceptablePairs(call) : call.boxes[j] = call.boxes[i] })

\* A call of the filter on two candidates kept the second and rejected the
\* first for its edges alone.
C12_Witness ==
  \E c \in DOMAIN qr.calls :
    LET call == qr.calls[c]
    IN  /\ Len(call.decoded) = 2 /\ Len(call.boxes) = 2
        /\ AcceptablePairs(call) = {2}
        /\ call.filtered.data = << call.decoded[2] >>
        /\ TextLength(call.decoded[1]) >= 4 /\ SidesOk(call.boxes[1])
        /\ AreaOk(call.boxes[1], call.image_shape) /\ AspectOk(call.boxes[1])
        /\ ~EdgesOk(call.boxes[1])

\* C13: when the primary engine has an accepted candidate the result is the
\* primary's accepted candidates and nothing of the fallback's; the
\* fallback's accepted candidates are the result only when the primary has
\* none; the result is never both lists together.
C13_EngineArbitration ==
  qr.pc = "returned" =>
    LET primary == qr.calls[1].filtered
        fallback == IF qr.pyzbar.installed
                      THEN _filter(qr.pyzbar.data, qr.pyzbar.points, qr.image_shape)
                      ELSE NoFilterResult
    IN  /\ primary.data # << >> => qr.result = QRDetections(primary.data, primary.boxes)
        /\ primary.data = << >> => qr.result = QRDetections(fallback.data, fallback.boxes)
        /\ (primary.data # << >> /\ fallback.data # << >>) =>
             /\ Len(qr.result) = Len(primary.data)
             /\ \A i \in DOMAIN qr.result : qr.result[i].text # ZbarText

\* Both engines had an accepted candidate and the primary's was returned.
C13_Witness ==
  /\ qr.pc = "returned"
  /\ qr.calls[1].filtered.data # << >>
  /\ qr.pyzbar.installed
  /\ _filter(qr.pyzbar.data, qr.pyzbar.points, qr.image_shape).data # << >>
  /\ qr.result = QRDetections(qr.calls[1].filtered.data, qr.calls[1].filtered.boxes)

----
\* The heat map: generate_heatmap on one image.  A cell value is kept in
\* units of 1 / (Scale * 100): np.exp is a table in thousandths, a confidence
\* is in hundredths.  The cells after normalization are exact quotients.

Scale == 1000

\* np.exp(-k / 4) in thousandths, for k = 0, 1, ...; 0 past the table, as
\* np.exp underflows to 0.
ExpTable ==
  << 1000, 779, 607, 472, 368, 287, 223, 174, 135, 105, 82, 64, 50, 39, 30,
     24, 18, 14, 11, 9, 7, 5, 4, 3, 2, 2, 2, 1, 1 >>

\* np.exp(-(n / d)) in thousandths, the exponent rounded down to quarters.
exp_neg(n, d) ==
  LET k == (4 * n) \div d
  IN  IF k + 1 <= Len(ExpTable) THEN ExpTable[k + 1] ELSE 0

\* qr_detector.py:136-139
polygon_to_bbox(points) ==
  << MinOf({ points[i][1] : i \in DOMAIN points }),
     MinOf({ points[i][2] : i \in DOMAIN points }),
     MaxOf({ points[i][1] : i \in DOMAIN points }),
     MaxOf({ points[i][2] : i \in DOMAIN points }) >>

\* The cells << x, y >> of an image of shape << height, width >>.
Cells(image_shape) == (0..(image_shape[2] - 1)) \X (0..(image_shape[1] - 1))

\* heatmap.py:41-64  sigma = max(1.0, w * 0.2) is kept in fifths, so that
\* dx^2 / (2 sigma_x^2) + dy^2 / (2 sigma_y^2) is an exact quotient.
add_gaussian_to_heatmap(heatmap, bbox, confidence) ==
  LET cx == (bbox[1] + bbox[3]) \div 2
      cy == (bbox[2] + bbox[4]) \div 2
      w == Max(1, bbox[3] - bbox[1])
      h == Max(1, bbox[4] - bbox[2])
      sigma_x == Max(5, w)
      sigma_y == Max(5, h)
      gaussian(cell) ==
        exp_neg(25 * ((cell[1] - cx) * (cell[1] - cx) * sigma_y * sigma_y
                      + (cell[2] - cy) * (cell[2] - cy) * sigma_x * sigma_x),
                2 * sigma_x * sigma_x * sigma_y * sigma_y)
  IN  [cell \in DOMAIN heatmap |-> heatmap[cell] + gaussian(cell) * confidence]

\* heatmap.max()
heatmap_max(heatmap) == MaxOf({ heatmap[cell] : cell \in DOMAIN heatmap })

\* Images of one row and of two rows; boxes narrower and wider than five
\* pixels, inside the image.
HeatShapes == { << 1, 12 >>, << 2, 3 >> }

HeatBoxes == { << 0, 0, 1, 1 >>, << 1, 0, 3, 1 >>, << 0, 0, 11, 1 >> }

HeatDetections ==
  { DetectionBox("stamp", c, b) : c \in {0, 40, 90}, b \in HeatBoxes }

HeatPolygons ==
  { << << 0, 0 >>, << 2, 0 >>, << 2, 1 >>, << 0, 1 >> >>,
    << << 2, 0 >>, << 10, 0 >>, << 10, 1 >>, << 2, 1 >> >> }

HeatInit ==
  /\ JobsIdle
  /\ page = NoCall /\ qr = NoCall /\ overlap = NoCall
  /\ review = NoCall /\ evaluation = NoCall
  /\ \E shape \in HeatShapes, ds \in SeqUpTo(HeatDetections, MaxDets),
        polys \in SeqUpTo(HeatPolygons, MaxQrHits) :
       heat = [pc |-> "detections", image_shape |-> shape, detections |-> ds,
               qr_polygons |-> polys, i |-> 1,
               heatmap |-> [cell \in Cells(shape) |-> 0],
               normalized |-> [cell \in Cells(shape) |-> Quotient(0, 1)]]

heat_unchanged ==
  UNCHANGED << registry, lock, pc, statusLog, stampLog, suffix, page_images,
               idx, page_results, summary_counts, exc, detectCalls, skipped,
               ordering, reader, page, qr, overlap, review, evaluation >>

\* heatmap.py:23-24  the next detection is added with its confidence.
heat_detection ==
  /\ heat.pc = "detections" /\ heat.i <= Len(heat.detections)
  /\ heat' = [heat EXCEPT
                !.i = @ + 1,
                !.heatmap = add_gaussian_to_heatmap(
                              @, heat.detections[heat.i].bbox,
                              heat.detections[heat.i].confidence)]
  /\ heat_unchanged

\* heatmap.py:23, 26  the detections are done: the loop over the QR polygons.
heat_detections_done ==
  /\ heat.pc = "detections" /\ heat.i > Len(heat.detections)
  /\ heat' = [heat EXCEPT !.pc = "polygons", !.i = 1]
  /\ heat_unchanged

\* heatmap.py:26-28  the next QR polygon is added with weight 0.9.
heat_polygon ==
  /\ heat.pc = "polygons" /\ heat.i <= Len(heat.qr_polygons)
  /\ heat' = [heat EXCEPT
                !.i = @ + 1,
                !.heatmap = add_gaussian_to_heatmap(
                              @, polygon_to_bbox(heat.qr_polygons[heat.i]), 90)]
  /\ heat_unchanged

\* heatmap.py:31 without the test of line 30: every cell is divided by the
\* maximum, which raises when the maximum is 0.
heat_normalize_unguarded ==
  /\ heat.pc = "polygons" /\ heat.i > Len(heat.qr_polygons)
  /\ LET peak == heatmap_max(heat.heatmap)
     IN  heat' = [heat EXCEPT
                    !.pc = IF peak = 0 THEN "raised" ELSE "normalized",
                    !.normalized =
                       IF peak = 0 THEN @
                       ELSE [cell \in DOMAIN heat.heatmap |->
                               Quotient(heat.heatmap[cell], peak)]]
  /\ heat_unchanged

\* heatmap.py:30-31  if heatmap.max() > 0: heatmap /= heatmap.max()
heat_normalize ==
  /\ heat.pc = "polygons" /\ heat.i > Len(heat.qr_polygons)
  /\ LET peak == heatmap_max(heat.heatmap)
     IN  heat' = [heat EXCEPT
                    !.pc = "normalized",
                    !.normalized =
                       IF peak > 0
                         THEN [cell \in DOMAIN heat.heatmap |->
                                 Quotient(heat.heatmap[cell], peak)]
                         ELSE [cell \in DOMAIN heat.heatmap |->
                                 Quotient(heat.heatmap[cell], Scale * 100)]]
  /\ heat_unchanged

HeatNext == heat_detection \/ heat_detections_done \/ heat_polygon \/ heat_normalize

HeatSpec == HeatInit /\ [][HeatNext]_vars

\* C19: after normalization every cell is in [0, 1], some cell is 1 when the
\* largest cell before normalization was positive, the map of a page with no
\* detection and no QR polygon is all zero, and no division by zero is raised.
C19_HeatmapRange ==
  /\ heat.pc # "raised"
  /\ heat.pc = "normalized" =>
       /\ \A cell \in DOMAIN heat.normalized :
            /\ heat.normalized[cell].d > 0
            /\ 0 <= heat.normalized[cell].n
            /\ heat.normalized[cell].n <= heat.normalized[cell].d
       /\ heatmap_max(heat.heatmap) > 0 =>
            \E cell \in DOMAIN heat.normalized :
              heat.normalized[cell].n = heat.normalized[cell].d
       /\ (heat.detections = << >> /\ heat.qr_polygons = << >>) =>
            \A cell \in DOMAIN heat.normalized : heat.normalized[cell].n = 0

\* A map of two detections and a QR polygon was normalized: its largest
\* cell was above one detection's weight, and some cell ended strictly
\* between 0 and 1.
C19_Witness ==
  /\ heat.pc = "normalized"
  /\ Len(heat.detections) >= 2 /\ Len(heat.qr_polygons) >= 1
  /\ heatmap_max(heat.heatmap) > Scale * 100
  /\ \E cell \in DOMAIN heat.normalized :
       /\ 0 < heat.normalized[cell].n
       /\ heat.normalized[cell].n < heat.normalized[cell].d

----
\* Evaluation: match_predictions on the ground truth and the predictions of
\* one image and class.  A BoundingBox has integer corners here and a
\* confidence in hundredths; an IoU is an exact quotient.

MaxGt == 2

MaxPreds == 2

\* evaluate_selected.py:15-24
BoundingBox(x1, y1, x2, y2, confidence) ==
  [x1 |-> x1, y1 |-> y1, x2 |-> x2, y2 |-> y2, confidence |-> confidence]

\* evaluate_selected.py:57-74 without the returns of 0.0 for an empty
\* intersection and for a zero union.
compute_iou_unguarded(box_a, box_b) ==
  LET inter_w == Max(0, Min(box_a.x2, box_b.x2) - Max(box_a.x1, box_b.x1))
      inter_h == Max(0, Min(box_a.y2, box_b.y2) - Max(box_a.y1, box_b.y1))
      inter_area == inter_w * inter_h
      area_a == Max(0, (box_a.x2 - box_a.x1) * (box_a.y2 - box_a.y1))
      area_b == Max(0, (box_b.x2 - box_b.x1) * (box_b.y2 - box_b.y1))
      union == area_a + area_b - inter_area
  IN  Quotient(inter_area, union)

\* evaluate_selected.py:57-74
compute_iou(box_a, box_b) ==
  LET inter_w == Max(0, Min(box_a.x2, box_b.x2) - Max(box_a.x1, box_b.x1))
      inter_h == Max(0, Min(box_a.y2, box_b.y2) - Max(box_a.y1, box_b.y1))
      inter_area == inter_w * inter_h
      area_a == Max(0, (box_a.x2 - box_a.x1) * (box_a.y2 - box_a.y1))
      area_b == Max(0, (box_b.x2 - box_b.x1) * (box_b.y2 - box_b.y1))
      union == area_a + area_b - inter_area
  IN  IF inter_w = 0 \/ inter_h = 0 THEN Quotient(0, 1)
      ELSE IF union # 0 THEN Quotient(inter_area, union)
      ELSE Quotient(0, 1)

\* a > b for two quotients with positive denominators.
Greater(a, b) == a.n * b.d > b.n * a.d

\* sorted(pred_boxes, key=confidence) without reverse=True: ascending.
RECURSIVE sorted_ascending(_, _)
sorted_ascending(pred_boxes, left) ==
  IF left = {} THEN << >>
  ELSE LET first == CHOOSE i \in left :
                      \A j \in left \ {i} :
                        \/ pred_boxes[i].confidence < pred_boxes[j].confidence
                        \/ /\ pred_boxes[i].confidence = pred_boxes[j].confidence
                           /\ i < j
       IN  << first >> \o sorted_ascending(pred_boxes, left \ {first})

\* sorted(pred_boxes, key=confidence, reverse=True): the positions of the
\* predictions by descending confidence, equal confidences in list order.
RECURSIVE sorted_by_confidence(_, _)
sorted_by_confidence(pred_boxes, left) ==
  IF left = {} THEN << >>
  ELSE LET first == CHOOSE i \in left :
                      \A j \in left \ {i} :
                        \/ pred_boxes[i].confidence > pred_boxes[j].confidence
                        \/ /\ pred_boxes[i].confidence = pred_boxes[j].confidence
                           /\ i < j
       IN  << first >> \o sorted_by_confidence(pred_boxes, left \ {first})

\* evaluate_selected.py:86-92 without the skip of the matched ground truth.
RECURSIVE best_match_any(_, _, _, _, _)
best_match_any(gt_boxes, pred, matched_gt, k, best) ==
  IF k > Len(gt_boxes) THEN best
  ELSE LET iou == compute_iou(gt_boxes[k], pred)
       IN  IF Greater(iou, best.iou)
             THEN best_match_any(gt_boxes, pred, matched_gt, k + 1, [iou |-> iou, idx |-> k])
             ELSE best_match_any(gt_boxes, pred, matched_gt, k + 1, best)

\* evaluate_selected.py:86-92  the inner loop from ground truth k on: the
\* first unmatched ground truth of strictly largest IoU, idx = -1 if none.
RECURSIVE best_match(_, _, _, _, _)
best_match(gt_boxes, pred, matched_gt, k, best) ==
  IF k > Len(gt_boxes) THEN best
  ELSE IF k \in matched_gt THEN best_match(gt_boxes, pred, matched_gt, k + 1, best)
  ELSE LET iou == compute_iou(gt_boxes[k], pred)
       IN  IF Greater(iou, best.iou)
             THEN best_match(gt_boxes, pred, matched_gt, k + 1, [iou |-> iou, idx |-> k])
             ELSE best_match(gt_boxes, pred, matched_gt, k + 1, best)

\* Boxes around the 10 by 10 box at the origin: itself, one of IoU 0.8 with
\* it, one of IoU 0.1, one apart from it.
EvalBoxes ==
  { << 0, 0, 10, 10 >>, << 0, 0, 10, 8 >>, << 0, 0, 10, 1 >>, << 20, 0, 30, 10 >> }

GroundTruths == { BoundingBox(b[1], b[2], b[3], b[4], 100) : b \in EvalBoxes }

Predictions ==
  { BoundingBox(b[1], b[2], b[3], b[4], c) : b \in EvalBoxes, c \in {30, 90} }

\* --iou: the default 0.5 (evaluate_selected.py:32), and 0.
IouThresholds == { Quotient(1, 2), Quotient(0, 1) }

MatchInit ==
  /\ JobsIdle
  /\ page = NoCall /\ qr = NoCall /\ overlap = NoCall
  /\ review = NoCall /\ heat = NoCall
  /\ \E gts \in SeqUpTo(GroundTruths, MaxGt), preds \in SeqUpTo(Predictions, MaxPreds),
        threshold \in IouThresholds :
       evaluation = [pc |-> "called", gt_boxes |-> gts, pred_boxes |-> preds,
                     iou_threshold |-> threshold,
                     order |-> sorted_by_confidence(preds, DOMAIN preds), k |-> 1,
                     matched_gt |-> {}, tp |-> 0, fp |-> 0, fn |-> 0,
                     outcomes |-> << >>]

match_unchanged ==
  UNCHANGED << registry, lock, pc, statusLog, stampLog, suffix, page_images,
               idx, page_results, summary_counts, exc, detectCalls, skipped,
               ordering, reader, page, qr, overlap, review, heat >>

\* evaluate_selected.py:78-79  no ground truth and no prediction: 0, 0, 0.
match_nothing ==
  /\ evaluation.pc = "called"
  /\ evaluation.gt_boxes = << >> /\ evaluation.pred_boxes = << >>
  /\ evaluation' = [evaluation EXCEPT !.pc = "returned"]
  /\ match_unchanged

\* evaluate_selected.py:83-97  the next prediction by confidence: a true
\* positive matched to its best unmatched ground truth, or a false positive.
\* outcomes records, for the properties, which ground truth each prediction got.
match_prediction ==
  /\ evaluation.pc = "called"
  /\ ~(evaluation.gt_boxes = << >> /\ evaluation.pred_boxes = << >>)
  /\ evaluation.k <= Len(evaluation.order)
  /\ LET p == evaluation.order[evaluation.k]
         best == best_match(evaluation.gt_boxes, evaluation.pred_boxes[p],
                            evaluation.matched_gt, 1, [iou |-> Quotient(0, 1), idx |-> -1])
         hit == /\ AtLeast(best.iou, evaluation.iou_threshold.n, evaluation.iou_threshold.d)
                /\ best.idx >= 0
     IN  evaluation' = [evaluation EXCEPT
                          !.k = @ + 1,
                          !.matched_gt = IF hit THEN @ \cup {best.idx} ELSE @,
                          !.tp = IF hit THEN @ + 1 ELSE @,
                          !.fp = IF hit THEN @ ELSE @ + 1,
                          !.outcomes = Append(@, [pred |-> p,
                                                  gt |-> IF hit THEN best.idx ELSE -1])]
  /\ match_unchanged

\* evaluate_selected.py:98-99  fn = len(gt_boxes) - len(matched_gt); return.
match_return ==
  /\ evaluation.pc = "called"
  /\ ~(evaluation.gt_boxes = << >> /\ evaluation.pred_boxes = << >>)
  /\ evaluation.k > Len(evaluation.order)
  /\ evaluation' = [evaluation EXCEPT
                      !.pc = "returned",
                      !.fn = Len(evaluation.gt_boxes) - Cardinality(evaluation.matched_gt)]
  /\ match_unchanged

MatchNext == match_nothing \/ match_prediction \/ match_return

MatchSpec == MatchInit /\ [][MatchNext]_vars

\* C20: the counts returned satisfy TP + FN = |G| and TP + FP = |P|; no
\* ground truth is matched by two predictions, and every prediction is
\* counted once, as a true positive or as a false positive.
C20_MatchCounts ==
  evaluation.pc = "returned" =>
    LET outcomes == evaluation.outcomes
        hits == { i \in DOMAIN outcomes : outcomes[i].gt # -1 }
    IN  /\ evaluation.tp + evaluation.fn = Len(evaluation.gt_boxes)
        /\ evaluation.tp + evaluation.fp = Len(evaluation.pred_boxes)
        /\ evaluation.tp >= 0 /\ evaluation.fp >= 0 /\ evaluation.fn >= 0
        /\ \A i, j \in hits : outcomes[i].gt = outcomes[j].gt => i = j
        /\ { outcomes[i].pred : i \in DOMAIN outcomes } = DOMAIN evaluation.pred_boxes
        /\ Len(outcomes) = Len(evaluation.pred_boxes)
        /\ evaluation.tp = Cardinality(hits)
        /\ evaluation.fp = Len(outcomes) - Cardinality(hits)

\* Two predictions overlapped the same ground truth: one matched it, the
\* other became a false positive, and another ground truth stayed unmatched.
C20_Witness ==
  /\ evaluation.pc = "returned"
  /\ evaluation.tp = 1 /\ evaluation.fp = 1 /\ evaluation.fn = 1
  /\ \E g \in DOMAIN evaluation.gt_boxes :
       \A p \in DOMAIN evaluation.pred_boxes :
         AtLeast(compute_iou(evaluation.gt_boxes[g], evaluation.pred_boxes[p]),
                 evaluation.iou_threshold.n, evaluation.iou_threshold.d)
  /\ evaluation.iou_threshold.n > 0

\* The ground truths no earlier prediction has claimed when the i-th
\* prediction of the run is considered.
Available(i) ==
  DOMAIN evaluation.gt_boxes \
    { evaluation.outcomes[k].gt : k \in 1..(i - 1) }

\* The IoU of ground truth g with the i-th prediction considered.
OutcomeIou(g, i) ==
  compute_iou(evaluation.gt_boxes[g],
              evaluation.pred_boxes[evaluation.outcomes[i].pred])

ReachesThreshold(q) ==
  AtLeast(q, evaluation.iou_threshold.n, evaluation.iou_threshold.d)

\* Predictions are considered by descending confidence, and a true positive
\* claims an unclaimed ground truth of highest IoU that reaches the threshold.
GreedyOrder ==
  /\ \A i, j \in DOMAIN evaluation.outcomes :
       i < j => evaluation.pred_boxes[evaluation.outcomes[i].pred].confidence
                  >= evaluation.pred_boxes[evaluation.outcomes[j].pred].confidence
  /\ \A i \in DOMAIN evaluation.outcomes :
       evaluation.outcomes[i].gt # -1 =>
         /\ evaluation.outcomes[i].gt \in Available(i)
         /\ ReachesThreshold(OutcomeIou(evaluation.outcomes[i].gt, i))
         /\ \A g \in Available(i) :
              ~Greater(OutcomeIou(g, i), OutcomeIou(evaluation.outcomes[i].gt, i))

\* One 10 by 10 ground truth, predictions of confidence 0.9 and 0.3 with
\* IoU 0.1 and 0.8, threshold 0.5.
Scenario21 ==
  /\ evaluation.gt_boxes = << BoundingBox(0, 0, 10, 10, 100) >>
  /\ evaluation.pred_boxes =
       << BoundingBox(0, 0, 10, 1, 90), BoundingBox(0, 0, 10, 8, 30) >>
  /\ evaluation.iou_threshold = Quotient(1, 2)

ScenarioCounts ==
  (evaluation.pc = "returned" /\ Scenario21) =>
    evaluation.tp = 1 /\ evaluation.fp = 1 /\ evaluation.fn = 0

\* C21 as stated: predictions are taken by descending confidence; each is
\* compared with the unclaimed ground truths only, and is a true positive
\* claiming the one of highest IoU exactly when that IoU reaches the
\* threshold, otherwise a false positive claiming none.
C21_GreedyMatching_AsStated ==
  /\ GreedyOrder
  /\ ScenarioCounts
  /\ \A i \in DOMAIN evaluation.outcomes :
       evaluation.outcomes[i].gt = -1 =>
         \A g \in Available(i) : ~ReachesThreshold(OutcomeIou(g, i))

\* C21: predictions are taken by descending confidence; each is compared
\* with the unclaimed ground truths only, and is a true positive claiming
\* the one of highest IoU exactly when that IoU is positive and reaches the
\* threshold, otherwise a false positive claiming none.
C21_GreedyMatching ==
  /\ GreedyOrder
  /\ ScenarioCounts
  /\ \A i \in DOMAIN evaluation.outcomes :
       /\ evaluation.outcomes[i].gt # -1 =>
            Greater(OutcomeIou(evaluation.outcomes[i].gt, i), Quotient(0, 1))
       /\ evaluation.outcomes[i].gt = -1 =>
            \A g \in Available(i) :
              \/ ~ReachesThreshold(OutcomeIou(g, i))
              \/ ~Greater(OutcomeIou(g, i), Quotient(0, 1))

\* The scenario ran to its end: the 0.9 prediction failed the threshold and
\* left the ground truth to the 0.3 prediction.
C21_Witness ==
  /\ evaluation.pc = "returned"
  /\ Scenario21
  /\ evaluation.outcomes = << [pred |-> 1, gt |-> -1], [pred |-> 2, gt |-> 1] >>

----
\* compute_iou on every pair of boxes with corners on a small grid, the
\* empty and the inverted ones included.

MaxCoord == 2

GridBoxes ==
  { BoundingBox(x1, y1, x2, y2, 100) :
      x1 \in 0..MaxCoord, y1 \in 0..MaxCoord, x2 \in 0..MaxCoord, y2 \in 0..MaxCoord }

IouInit ==
  /\ JobsIdle
  /\ page = NoCall /\ qr = NoCall /\ overlap = NoCall
  /\ review = NoCall /\ heat = NoCall
  /\ \E a \in GridBoxes, b \in GridBoxes :
       evaluation = [pc |-> "iou_called", box_a |-> a, box_b |-> b,
                     iou |-> Quotient(0, 1)]

\* evaluate_selected.py:89  iou = compute_iou(gt, pred)
iou_return ==
  /\ evaluation.pc = "iou_called"
  /\ evaluation' = [evaluation EXCEPT
                      !.pc = "iou_returned",
                      !.iou = compute_iou(evaluation.box_a, evaluation.box_b)]
  /\ match_unchanged

IouNext == iou_return

IouSpec == IouInit /\ [][IouNext]_vars

\* The area of a box: empty when a side is not positive.
BoxArea(box) == Max(0, box.x2 - box.x1) * Max(0, box.y2 - box.y1)

\* The boxes share no interior point: one lies beside or above the other,
\* touching edges included.
Apart(a, b) ==
  a.x2 <= b.x1 \/ b.x2 <= a.x1 \/ a.y2 <= b.y1 \/ b.y2 <= a.y1

\* C22: iou(A, A) is 1 for a box of positive area and 0 for an empty one;
\* iou(A, B) = iou(B, A); iou is 0 for boxes that are apart or touch along
\* an edge and when either box is empty; no call divides by zero, and every
\* value is in [0, 1].
C22_IouAlgebra ==
  evaluation.pc = "iou_returned" =>
    LET a == evaluation.box_a
        b == evaluation.box_b
        v == evaluation.iou
        w == compute_iou(b, a)
    IN  /\ v.d > 0
        /\ 0 <= v.n /\ v.n <= v.d
        /\ a = b => IF BoxArea(a) > 0 THEN v.n = v.d ELSE v.n = 0
        /\ w.d > 0 /\ v.n * w.d = w.n * v.d
        /\ (Apart(a, b) \/ BoxArea(a) = 0 \/ BoxArea(b) = 0) => v.n = 0

\* Two different boxes of positive area that overlap in part got an IoU
\* strictly between 0 and 1.
C22_Witness ==
  /\ evaluation.pc = "iou_returned"
  /\ evaluation.box_a # evaluation.box_b
  /\ BoxArea(evaluation.box_a) > 0 /\ BoxArea(evaluation.box_b) > 0
  /\ 0 < evaluation.iou.n /\ evaluation.iou.n < evaluation.iou.d

----
\* Properties of the error field of the job records.

\* C23: in every state a job's error is set only if its status is failed,
\* every failed job carries the message of the error that failed it, and a
\* pending, running or completed job has no error.
C23_ErrorIffFailed ==
  \A j \in Registered :
    /\ registry[j].error # Null => registry[j].status = "failed"
    /\ registry[j].status = "failed" =>
         registry[j].error # Null /\ registry[j].error = exc[j]
    /\ registry[j].status \in {"pending", "running", "completed"} =>
         registry[j].error = Null

----
\* The request handlers that read job records while the workers run:
\* get_job (routes.py:43-48) and list_jobs (routes.py:37-40) fetch the
\* records under the lock and then build a JobDetail from each with
\* job_to_schema (schemas/job.py:60-76), which reads the fields of the stored
\* record one after another without the lock.  The reads of summary and pages
\* (schemas/job.py:61-67) come first and are not part of what is recorded
\* here; status, completed_at and error are read in that order.

reader_unchanged ==
  << registry, lock, pc, suffix, page_images, idx, page_results,
     summary_counts, exc, detectCalls, skipped, statusLog, stampLog,
     ordering, functions >>

\* What job_to_schema starts from for the records still to convert.
Fetched(ids) ==
  [pc |-> IF ids = << >> THEN "responded" ELSE "status", todo |-> ids,
   status |-> "unread", completed_at |-> "unread", error |-> "unread"]

\* routes.py:45-47  job_manager.get (job_manager.py:19-21) returns the stored
\* record itself, or None for an unknown id: 404.
get_job(j) ==
  /\ reader.pc = "idle"
  /\ lock = Free
  /\ reader' = IF j \in DOMAIN registry
                 THEN Fetched(<< j >>)
                 ELSE [NoRequest EXCEPT !.pc = "not_found"]
  /\ UNCHANGED reader_unchanged

\* routes.py:39  job_manager.list_all (job_manager.py:23-25): the stored
\* records, in the order of their insertion.
list_jobs ==
  /\ reader.pc = "idle"
  /\ lock = Free
  /\ reader' = Fetched([i \in 1..Len(registry) |-> i])
  /\ UNCHANGED reader_unchanged

\* schemas/job.py:70  status=job.status
read_status ==
  /\ reader.pc = "status"
  /\ reader' = [reader EXCEPT !.status = registry[Head(reader.todo)].status,
                              !.pc = "completed_at"]
  /\ UNCHANGED reader_unchanged

\* schemas/job.py:72  completed_at=job.completed_at
read_completed_at ==
  /\ reader.pc = "completed_at"
  /\ reader' = [reader EXCEPT
                  !.completed_at = registry[Head(reader.todo)].completed_at,
                  !.pc = "error"]
  /\ UNCHANGED reader_unchanged

\* schemas/job.py:75  error=job.error; the JobDetail is built.
read_error ==
  /\ reader.pc = "error"
  /\ reader' = [reader EXCEPT !.error = registry[Head(reader.todo)].error,
                              !.pc = "built"]
  /\ UNCHANGED reader_unchanged

\* routes.py:40, 48  the next record of the list, or the response.
respond ==
  /\ reader.pc = "built"
  /\ reader' = Fetched(Tail(reader.todo))
  /\ UNCHANGED reader_unchanged

ReaderNext ==
  \/ \E j \in JobIds : get_job(j)
  \/ list_jobs
  \/ read_status
  \/ read_completed_at
  \/ read_error
  \/ respond
  \/ Next

ReaderSpec == Init /\ [][ReaderNext]_vars

\* C24: under every interleaving of the workers with a reader that fetches a
\* job and then reads its fields, the JobDetail the reader builds never shows
\* a terminal status with completed_at null, nor failed with error null.
C24_ReaderConsistent ==
  reader.pc = "built" =>
    /\ reader.status \in Terminal => reader.completed_at # Null
    /\ reader.status = "failed" => reader.error # Null

----
\* Properties of the pairing of texts and quads in QR detection.

\* The (text, quad) pairs an engine reported, code by code.
Reported(engine) ==
  { [text |-> engine.data[i], polygon |-> engine.points[i]] :
      i \in 1..Min(Len(engine.data), Len(engine.points)) }

\* C25: every accepted QR detection pairs a decoded text with the quad the
\* engine reported for that same code, also when the engine returns an empty
\* text for some of the quads.
C25_PairingPreserved ==
  qr.pc = "returned" =>
    \A i \in DOMAIN qr.result :
      qr.result[i] \in Reported(qr.opencv) \cup Reported(qr.pyzbar)

----
\* Properties of the pages of an archive.

\* C26: for a zip archive every supported image member yields a page of its
\* own: no two entries of the list prepare_pages returns are the same path,
\* so no member's page file is overwritten by another's, also for members
\* of the same file name in different sub-directories.
C26_DistinctPages ==
  \A r \in Runs :
    runs[r].prepared =>
      \A a, b \in DOMAIN runs[r].page_images :
        a # b => runs[r].page_images[a] # runs[r].page_images[b]

----
\* Properties of jobs that run concurrently.

\* The record process_job leaves for job j once it has returned or raised,
\* as j's own execution determines it.
FinalRecord(j) ==
  IF pc[j] = "done"
    THEN [status |-> "completed", pages |-> page_results[j],
          summary |-> summary_counts[j], completed_at |-> "utcnow",
          error |-> Null]
    ELSE [JobResult EXCEPT !.status = "failed", !.error = exc[j],
                           !.completed_at = "utcnow"]

\* C27: with several jobs in progress, every step taken for job j (its
\* registration, mark_running, the writes of pages, summary and status,
\* mark_completed, mark_failed) leaves the record of every other job
\* unchanged, no record changes without a step of its own job, and the
\* record a job ends with is the one its own execution determines.
C27_JobsIndependent ==
  /\ [](\A j \in Registered :
          pc[j] \in {"done", "raised"} => registry[j] = FinalRecord(j))
  /\ [][/\ \A j \in JobIds :
             pc'[j] # pc[j] =>
               \A k \in Registered \ {j} :
                 k \in DOMAIN registry' /\ registry'[k] = registry[k]
        /\ \A k \in Registered :
             registry'[k] # registry[k] => pc'[k] # pc[k]]_vars

\* Two jobs have both ended, one completed and one failed.
C27_Witness ==
  \E j, k \in Registered :
    /\ pc[j] = "done" /\ pc[k] = "raised"
    /\ registry[j].status = "completed" /\ registry[k].status = "failed"

----
\* Calls with a job id the store has never saved: process_job started for
\* such an id, and the transitions of JobManager called with it, next to the
\* jobs that are registered and processed.

\* The id that is never saved.
UnknownId == MaxJobs

\* The caller is between two calls.
BetweenCalls(j) == pc[j] \in {"none", "not_registered", "key_error"}

\* process_job(job_id, upload_path) is started for the id (pipeline.py:30);
\* its lookup and its RuntimeError are get and check_registered.
call_process_job(j) ==
  /\ BetweenCalls(j)
  /\ pc' = [pc EXCEPT ![j] = "queued"]
  /\ UNCHANGED << registry, lock, locals, statusLog, stampLog >>

\* job_manager.py:28, 33, 39  with self._lock: entered by mark_running,
\* mark_completed or mark_failed.
call_transition(j) ==
  /\ BetweenCalls(j)
  /\ Acquire(j)
  /\ \E lookup \in {"mark_running_lookup", "mark_completed_lookup",
                    "mark_failed_lookup"} :
       pc' = [pc EXCEPT ![j] = lookup]
  /\ UNCHANGED << registry, locals, statusLog, stampLog >>

\* The KeyError leaves the caller inside the with block, the lock held.
KeyError_locked(j) ==
  /\ pc[j] \in {"mark_running_lookup", "mark_completed_lookup",
                "mark_failed_lookup"}
  /\ j \notin DOMAIN registry
  /\ pc' = [pc EXCEPT ![j] = "key_error"]
  /\ UNCHANGED << registry, lock, locals, statusLog, stampLog >>

\* job_manager.py:29, 34, 40  job = self._jobs[job_id] raises KeyError before
\* any assignment; the with statement releases the lock as the exception
\* leaves the block.
KeyError(j) ==
  /\ pc[j] \in {"mark_running_lookup", "mark_completed_lookup",
                "mark_failed_lookup"}
  /\ j \notin DOMAIN registry
  /\ Release(j)
  /\ pc' = [pc EXCEPT ![j] = "key_error"]
  /\ UNCHANGED << registry, locals, statusLog, stampLog >>

UnknownNext ==
  \/ \E j \in JobIds \ {UnknownId} :
       create_job(j) \/ add_task(j) \/ process_job(j)
  \/ call_process_job(UnknownId)
  \/ get(UnknownId)
  \/ check_registered(UnknownId)
  \/ call_transition(UnknownId)
  \/ KeyError(UnknownId)

UnknownSpec == Init /\ [][UnknownNext]_vars

\* C28: process_job started for an id that is not in the registry raises
\* without changing any job record; mark_running, mark_completed or
\* mark_failed called with such an id raises, changes no record, and has
\* released the lock when it has raised, so the lock is then free for
\* whatever is called next.  (The one step of an unregistered id that
\* changes the registry is its registration by save.)
C28_UnknownId ==
  /\ [](\A j \in JobIds \ Registered :
          /\ pc[j] \in {"none", "queued", "get", "not_registered", "key_error",
                        "mark_running_lookup", "mark_completed_lookup",
                        "mark_failed_lookup"}
          /\ pc[j] \in {"not_registered", "key_error"} => lock # j)
  /\ [][\A j \in JobIds \ Registered :
          (pc'[j] # pc[j] /\ pc'[j] # "save") =>
            /\ registry' = registry
            /\ pc[j] = "get" => pc'[j] = "not_registered"
            /\ pc[j] \in {"mark_running_lookup", "mark_completed_lookup",
                          "mark_failed_lookup"} => pc'[j] = "key_error"]_vars

\* A transition called with the unknown id has raised, and the thread of a
\* registered job holds the lock after it.
C28_Witness ==
  /\ pc[UnknownId] = "key_error"
  /\ UnknownId \notin Registered
  /\ lock \in Registered

====
